---- MODULE Spec2Model ----
(***************************************************************************)
(* A model of the geerpc client, server, codec framing, dialTimeout and    *)
(* Server.Register.                                                         *)
(*                                                                          *)
(* One client and one server share one connection.  The connection is two   *)
(* item streams (requests, responses); the gob codec writes a header item   *)
(* and then a body item per frame pair.  Every goroutine of the code is a   *)
(* process with a program counter; a step is the code between two points    *)
(* where another goroutine can be observed (a lock, a channel, a read or a  *)
(* write of the connection).                                                *)
(***************************************************************************)
EXTENDS Integers, Sequences, FiniteSets, TLC

\* ------------------------------------------------------------------ bounds
\* Calls made on the client (Client.Call invocations, each on its own goroutine).
NumCalls == 2

Calls == 1 .. NumCalls

\* ------------------------------------------------------------------ values
\* An error value: msg is the fixed text, arg what is appended to it.
\* The nil error (and the empty header.Error string) is NoErr.
Err(m, a) == [msg |-> m, arg |-> a]

NoErr == Err("", "")

\* The context errors ctx.Err() can give.
CtxErrors == {"context canceled", "context deadline exceeded"}

\* Service methods a caller can name.  Bar.Timeout is registered on the server.
ServiceMethods == {"Bar.Timeout", "Bar.Nope", "Nope.Timeout", "BarTimeout"}

\* Argument values a caller can pass: Bar.Timeout takes an int.
ArgValues == {"int", "string"}

\* HandleTimeout values of the option: 0 is no limit, 1 stands for d > 0.
HandleTimeouts == {0, 1}

\* The call of the client's test: client.Call(ctx, "Bar.Timeout", 1, &reply).
TestMethod == "Bar.Timeout"

TestArgs == "int"

\* cap(done) of the channel Client.Call makes.
DoneCap == 1

VARIABLES
    \* Client (src/cilcnt.go)
    seq,          \* client.seq
    pending,      \* client.pending: Seq -> call
    shutdown,     \* client.shutdown
    sending,      \* client.sending: 0 when free, else the call whose send holds it
    calls,        \* the Call records; Done is the number of items in the channel
    callPc,       \* where each Client.Call goroutine is
    ctxErr,       \* ctx.Err() of each call's context ("" while not done)
    callResult,   \* what Client.Call returned
    cancelled,    \* history: the ctx branch of Call found the call still pending
    recvPc,       \* where the receive goroutine is
    recvHdr,      \* the header receive holds
    recvCall,     \* the call receive removed for it (0: nil)
    recvErr,      \* the error ReadHeader gave
    deliveries,   \* history: <<call the response was written for, call it was given to>>
    drained,      \* history: calls whose response was read with no call registered
    \* Connection
    reqWire,      \* items written client -> server
    respWire,     \* items written server -> client
    cliRead,      \* next item of respWire the client reads
    srvRead,      \* next item of reqWire the server reads
    connBroken,   \* the connection failed or was closed
    \* Server (src/client/client_test.go, lines 80-323)
    timeout,      \* opt.HandleTimeout
    srvPc,        \* where serveCodec is
    srvHdr,       \* the header readRequest holds
    srvExit,      \* history: why the serve loop ended
    handlers,     \* one record per handleRequest task, in spawn order
    srvSending,   \* the connection's sending mutex
    wg,           \* the connection's wait group
    serviceMap,   \* Server.serviceMap: service name -> the receiver registered
    \* Server.Register calls (src/client/client_test.go, lines 129-135)
    regPc,        \* where each Register call is
    regName,      \* service.name newService gave it
    regErr,    \* the error it returned
    regOrder,     \* history: the calls in the order of their LoadOrStore
    \* dialTimeout (src/cilcnt.go, lines 212-243)
    connectTimeout, \* opt.ConnectTimeout
    codecType,    \* opt.CodecType
    dialer,       \* the handshake function f: NewClient (Dial) or NewHTTPClient (DialHTTP)
    dialPc,       \* where dialTimeout is
    innerPc,      \* where the goroutine that runs f is
    dClient,      \* dialTimeout's named result client
    dErr,         \* dialTimeout's named result err
    dialConn,     \* the connection net.DialTimeout opened
    dialResult,   \* what dialTimeout returned to its caller
    fResult,      \* history: what f returned
    fLate         \* history: f was still running when the timeout case was taken

clientVars == <<seq, pending, shutdown, sending, calls, callPc, ctxErr, callResult,
                cancelled, recvPc, recvHdr, recvCall, recvErr, deliveries, drained>>

wireVars == <<reqWire, respWire, cliRead, srvRead, connBroken>>

serverVars == <<timeout, srvPc, srvHdr, srvExit, handlers, srvSending, wg, serviceMap>>

regVars == <<regPc, regName, regErr, regOrder>>

dialVars == <<connectTimeout, codecType, dialer, dialPc, innerPc, dClient, dErr, dialConn, dialResult,
              fResult, fLate>>

VARIABLES
    \* Clock: what time.Now() returns
    now,
    \* GeeRegistry (src/registry/registry.go)
    rTimeout,     \* GeeRegistry.timeout
    rServers,     \* GeeRegistry.servers: the ServerItems of the map
    httpStatus,   \* the status of the last response ServeHTTP wrote
    getResponse,  \* the addresses of the last X-Geerpc-Servers header written
    lastPost,     \* history: when the last accepted POST of an address was made (-1: never)
    lastOp        \* history: the last request served, when, and the map before it

registryVars == <<rTimeout, rServers, httpStatus, getResponse, lastPost, lastOp>>

VARIABLES
    \* XClient.Broadcast (src/xclient/xclient.go, lines 78-118)
    bPc,          \* where Broadcast is
    bReplyNil,    \* the caller passed reply == nil
    bTasks,       \* per server task: where it is, what xc.call returned
    bLock,        \* lock: the task that holds it (0: free)
    bE,           \* e
    bReplyDone,   \* replyDone
    bReply,       \* the caller's reply value (0: as the caller left it)
    bCtxDone,     \* the child context is done
    bCancelBy,    \* history: the task that called cancel() (0: none)
    bOrder,       \* history: the tasks in the order they took the lock
    bResult       \* what Broadcast returned

bcastVars == <<bPc, bReplyNil, bTasks, bLock, bE, bReplyDone, bReply, bCtxDone, bCancelBy,
               bOrder, bResult>>

VARIABLES
    \* MultiServersDiscovery (src/unnamed/part_001, lines 25-75)
    dServers,     \* servers
    dIndex,       \* index
    muWriter,     \* mu: the goroutine that holds the write lock (0: none)
    muReaders,    \* mu: the read locks held
    dPc,          \* where each caller of the discovery is
    dOp,          \* the method it called, and with what
    dResult       \* what its last call returned

discoveryVars == <<dServers, dIndex, muWriter, muReaders, dPc, dOp, dResult>>

VARIABLES
    \* XClient (src/xclient/xclient.go, lines 10-58)
    xClients,     \* clients: address -> the Client cached for it (0: no entry)
    xState,       \* per Client made: its closing and shutdown flags
    xMade,        \* the number of Clients XDial has made
    lastDial      \* history: the last dial call, what it found and what it returned

xclientVars == <<xClients, xState, xMade, lastDial>>

VARIABLES
    \* GeeRegistryDiscovery (src/unnamed/part_001, lines 87-149); its list and index
    \* are those of the MultiServersDiscovery it embeds
    rdTimeout,     \* timeout: the refresh interval
    rdLastUpdate,  \* lastUpdate
    rdPc,          \* where the caller of Get or GetAll is
    rdOp,          \* the method called: Get or GetAll
    rdErr,         \* the error the last call returned
    rdLast         \* history: the last Refresh or Update made, and what it did

refreshVars == <<rdTimeout, rdLastUpdate, rdPc, rdOp, rdErr, rdLast>>

VARIABLES
    \* MultiServersDiscovery.Get(RoundRobinSelect), statement by statement
    \* (src/unnamed/part_001, lines 53-66)
    rrPc,         \* where each caller's Get is
    rrLocal,      \* the index each caller computed
    rrOverlap,    \* history: whether another Get ran during each caller's Get
    rrLog         \* history: the Gets that returned, in the order of their returns

roundRobinVars == <<rrPc, rrLocal, rrOverlap, rrLog>>

VARIABLES
    \* Client, history
    lockLog       \* the deliveries on Done and the Codec.Write calls made so far, each
                  \* with the client's locks its goroutine held

componentVars == <<now, registryVars, bcastVars, discoveryVars, xclientVars, refreshVars,
                   roundRobinVars>>

extVars == <<componentVars, lockLog>>

coreVars == <<clientVars, wireVars, serverVars, regVars, dialVars>>

\* What the actions of one part leave alone.
exceptClock == <<coreVars, lockLog, refreshVars, roundRobinVars, registryVars, bcastVars, discoveryVars, xclientVars>>

exceptRegistry == <<coreVars, lockLog, refreshVars, roundRobinVars, bcastVars, discoveryVars, xclientVars>>

exceptBcast == <<coreVars, lockLog, refreshVars, roundRobinVars, now, registryVars, discoveryVars, xclientVars>>

exceptDiscovery == <<coreVars, lockLog, refreshVars, roundRobinVars, now, registryVars, bcastVars, xclientVars>>

exceptXClient == <<coreVars, lockLog, refreshVars, roundRobinVars, now, registryVars, bcastVars, discoveryVars>>

exceptRefresh == <<coreVars, lockLog, roundRobinVars, now, registryVars, bcastVars, xclientVars, muWriter, muReaders,
                  dPc, dOp, dResult>>

exceptRoundRobin == <<coreVars, lockLog, refreshVars, now, registryVars, bcastVars, xclientVars,
                     dServers, muWriter, dPc, dOp, dResult>>

vars == <<clientVars, wireVars, serverVars, regVars, dialVars, extVars>>

\* ------------------------------------------------------------------ codec
\* The items GobCodec.Write puts on the stream: enc.Encode(header), enc.Encode(body).
\* frame names the Write call (who wrote, and for which call or handler); call is
\* history (the call the frame belongs to).
HdrItem(f, sm, s, e, c) ==
    [kind |-> "hdr", frame |-> f, sm |-> sm, seq |-> s, err |-> e, val |-> "", call |-> c]

BodyItem(f, v) ==
    [kind |-> "body", frame |-> f, sm |-> "", seq |-> 0, err |-> NoErr, val |-> v, call |-> 0]

NoItem == BodyItem(<<"", 0>>, "")

\* enc.Encode(body) fails on the value itself, after the header has been written: gob
\* cannot encode a nil interface value, and has no encoding of a reflect.Value (a
\* struct with no exported fields).
EncodeFails(v) == v \in {"nil", "reflect.Value"}

\* dec.Decode into a target: the next item must be of the kind read.  Decode(nil)
\* discards the next value whatever it is.
DecodeFails(item, kind, target) ==
    IF target = "nil" THEN FALSE ELSE item.kind # kind

\* sync.Mutex.Lock returns only when the mutex is free.
CanLockAlways(l) == TRUE

CanLock(l) == l = 0

\* ------------------------------------------------------------------ client
NewCall ==
    [Seq |-> 0, ServerMethod |-> "", Args |-> "", Reply |-> "", Error |-> NoErr,
     Done |-> 0, signalled |-> 0]

\* registerCall: seq := client.seq; client.seq += 1.  (seq is a uint64; the model's
\* calls are far fewer than 2^64.)
NextSeqStuck(s) == s

NextSeq(s) == s + 1

\* registerCall: client.pending[seq] = call
registerCall(p, s, c) == [k \in DOMAIN p \cup {s} |-> IF k = s THEN c ELSE p[k]]

\* removeCall: the call registered under s (0 for nil) ...
lookupCall(p, s) == IF s \in DOMAIN p THEN p[s] ELSE 0

\* ... and delete(client.pending, seq)
removeCallKeep(p, s) == p

removeCall(p, s) == [k \in DOMAIN p \ {s} |-> p[k]]

\* call.Error = e; call.done()
completeCallNoError(cs, c, e) == [cs EXCEPT ![c].Done = @ + 1, ![c].signalled = @ + 1]

completeCall(cs, c, e) ==
    [cs EXCEPT ![c].Error = e, ![c].Done = @ + 1, ![c].signalled = @ + 1]

\* terminateCalls: for _, call := range client.pending { call.Error = err; call.done() }
terminateNone(cs, p, e) == cs

terminateCalls(cs, p, e) ==
    [c \in DOMAIN cs |->
        IF \E s \in DOMAIN p : p[s] = c
        THEN [cs[c] EXCEPT !.Error = e, !.Done = @ + 1, !.signalled = @ + 1]
        ELSE cs[c]]

\* Call, case <-ctx.Done(): client.removeCall(call.Seq)
cancelCallSkip(p, s) == p

cancelCall(p, s) == removeCall(p, s)

\* The client's locks a goroutine holds where it calls Codec.Write or call.done():
\* send holds sending from its first statement to its return (registerCall and
\* removeCall take and release mu inside); receive calls done() with no lock (its
\* removeCall has returned); terminateCalls holds sending and mu to its return.
LocksHeld(site) ==
    CASE site = "send.Write" -> {"sending"}
      [] site = "send.done" -> {"sending"}
      [] site = "receive.done" -> {}
      [] site = "terminateCalls.done" -> {"sending", "mu"}

Logged(log, sites) == log \cup {<<s, LocksHeld(s)>> : s \in sites}

\* Call: errors.New("rpc client: call failed: " + ctx.Err().Error())
CallFailed(e) == Err("rpc client: call failed: ", e)

InitClient ==
    /\ seq = 0
    /\ pending = << >>
    /\ shutdown = FALSE
    /\ sending = 0
    /\ calls = [c \in Calls |-> NewCall]
    /\ callPc = [c \in Calls |-> "idle"]
    /\ ctxErr = [c \in Calls |-> ""]
    /\ callResult = [c \in Calls |-> NoErr]
    /\ cancelled = [c \in Calls |-> FALSE]
    /\ recvPc = "readHeader"
    /\ recvHdr = NoItem
    /\ recvCall = 0
    /\ recvErr = NoErr
    /\ deliveries = {}
    /\ drained = {}

InitWire ==
    /\ reqWire = << >>
    /\ respWire = << >>
    /\ cliRead = 1
    /\ srvRead = 1
    /\ connBroken = FALSE

\* Client.Call -> Client.Go -> client.send, up to the header's Encode in Codec.Write:
\* lock sending, registerCall, write the header.  A failed write removes the call
\* and completes it with the error.  (Go's Seq: client.seq is overwritten by
\* registerCall before anything reads it.)
CallSend(c, sm, a) ==
    /\ callPc[c] = "idle"
    /\ CanLock(sending)
    /\ seq' = NextSeq(seq)
    /\ LET made == [calls EXCEPT ![c].Seq = seq, ![c].ServerMethod = sm, ![c].Args = a]
       IN  IF connBroken
           THEN /\ pending' = removeCall(registerCall(pending, seq, c), seq)
                /\ calls' = completeCall(made, c, Err("write", "broken pipe"))
                /\ sending' = 0
                /\ callPc' = [callPc EXCEPT ![c] = "select"]
                /\ lockLog' = Logged(lockLog, {"send.Write", "send.done"})
                /\ UNCHANGED reqWire
           ELSE /\ pending' = registerCall(pending, seq, c)
                /\ lockLog' = Logged(lockLog, {"send.Write"})
                /\ calls' = made
                /\ sending' = c
                /\ callPc' = [callPc EXCEPT ![c] = "body"]
                /\ reqWire' = Append(reqWire, HdrItem(<<"send", c>>, sm, seq, NoErr, c))
    /\ UNCHANGED <<shutdown, ctxErr, callResult, cancelled, recvPc, recvHdr, recvCall,
                   recvErr, deliveries, drained, respWire, cliRead, srvRead, connBroken,
                   serverVars,
                   regVars, dialVars, componentVars>>

\* client.send, the rest: the body's Encode, then the error path of send and the
\* deferred sending.Unlock().
CallSendBody(c) ==
    /\ callPc[c] = "body"
    /\ LET s == calls[c].Seq
           call == lookupCall(pending, s)
       IN  IF connBroken
           THEN /\ pending' = removeCall(pending, s)
                /\ calls' = IF call # 0
                            THEN completeCall(calls, call, Err("write", "broken pipe"))
                            ELSE calls
                /\ lockLog' = IF call # 0 THEN Logged(lockLog, {"send.done"}) ELSE lockLog
                /\ UNCHANGED reqWire
           ELSE /\ reqWire' = Append(reqWire, BodyItem(<<"send", c>>, calls[c].Args))
                /\ UNCHANGED <<pending, calls, lockLog>>
    /\ sending' = 0
    /\ callPc' = [callPc EXCEPT ![c] = "select"]
    /\ UNCHANGED <<seq, shutdown, ctxErr, callResult, cancelled, recvPc, recvHdr,
                   recvCall, recvErr, deliveries, drained, respWire, cliRead, srvRead,
                   connBroken, serverVars,
                   regVars, dialVars, componentVars>>

\* The context of call c is cancelled or its deadline passes (the environment).  Only
\* Call's select reads the context, so a cancellation before the select is one at it.
CtxCancel(c, e) ==
    /\ callPc[c] = "select"
    /\ ctxErr[c] = ""
    /\ ctxErr' = [ctxErr EXCEPT ![c] = e]
    /\ UNCHANGED <<seq, pending, shutdown, sending, calls, callPc, callResult, cancelled,
                   recvPc, recvHdr, recvCall, recvErr, deliveries, drained, wireVars,
                   serverVars,
                   regVars, dialVars, extVars>>

\* Call's select, case <-ctx.Done(): removeCall(call.Seq), return the error.
CallCtxDone(c) ==
    /\ callPc[c] = "select"
    /\ ctxErr[c] # ""
    /\ pending' = cancelCall(pending, calls[c].Seq)
    /\ cancelled' = [cancelled EXCEPT ![c] = lookupCall(pending, calls[c].Seq) = c]
    /\ callResult' = [callResult EXCEPT ![c] = CallFailed(ctxErr[c])]
    /\ callPc' = [callPc EXCEPT ![c] = "returned"]
    /\ UNCHANGED <<seq, shutdown, sending, calls, ctxErr, recvPc, recvHdr, recvCall,
                   recvErr, deliveries, drained, wireVars, serverVars,
                   regVars, dialVars, extVars>>

\* Call's select, case call := <-call.Done: return call.Error.
CallDone(c) ==
    /\ callPc[c] = "select"
    /\ calls[c].Done > 0
    /\ calls' = [calls EXCEPT ![c].Done = @ - 1]
    /\ callResult' = [callResult EXCEPT ![c] = calls[c].Error]
    /\ callPc' = [callPc EXCEPT ![c] = "returned"]
    /\ UNCHANGED <<seq, pending, shutdown, sending, ctxErr, cancelled, recvPc, recvHdr,
                   recvCall, recvErr, deliveries, drained, wireVars, serverVars,
                   regVars, dialVars, extVars>>

\* receive, from the top of the loop to removeCall: the shutdown test, ReadHeader
\* (which waits for an item or for the connection to fail), removeCall(header.Seq).
RecvHeader ==
    /\ recvPc = "readHeader"
    /\ shutdown \/ cliRead <= Len(respWire) \/ connBroken
    /\ IF shutdown
       THEN /\ recvPc' = "exited"
            /\ UNCHANGED <<pending, recvHdr, recvCall, recvErr, cliRead>>
       ELSE IF cliRead <= Len(respWire)
       THEN LET item == respWire[cliRead]
            IN  /\ cliRead' = cliRead + 1
                /\ IF DecodeFails(item, "hdr", "header")
                   THEN /\ recvErr' = Err("gob: decode", "type mismatch")
                        /\ recvPc' = "terminate"
                        /\ UNCHANGED <<pending, recvHdr, recvCall>>
                   ELSE /\ recvHdr' = item
                        /\ recvCall' = lookupCall(pending, item.seq)
                        /\ pending' = removeCall(pending, item.seq)
                        /\ recvPc' = "readBody"
                        /\ UNCHANGED recvErr
       ELSE /\ recvErr' = Err("read", "EOF")
            /\ recvPc' = "terminate"
            /\ UNCHANGED <<pending, recvHdr, recvCall, cliRead>>
    /\ UNCHANGED <<seq, shutdown, sending, calls, callPc, ctxErr, callResult, cancelled,
                   deliveries, drained, reqWire, respWire, srvRead, connBroken,
                   serverVars,
                   regVars, dialVars, extVars>>

\* receive, the switch: ReadBody (nil or call.Reply), call.Error, call.done().
RecvBody ==
    /\ recvPc = "readBody"
    /\ cliRead <= Len(respWire) \/ connBroken
    /\ LET avail == cliRead <= Len(respWire)
           item == IF avail THEN respWire[cliRead] ELSE NoItem
           target == IF recvCall = 0 \/ recvHdr.err # NoErr THEN "nil" ELSE "reply"
           failed == ~avail \/ DecodeFails(item, "body", target)
       IN  /\ cliRead' = IF avail THEN cliRead + 1 ELSE cliRead
           /\ IF recvCall = 0
              THEN /\ drained' = drained \cup {recvHdr.call}
                   /\ UNCHANGED <<calls, deliveries, lockLog>>
              ELSE /\ deliveries' = deliveries \cup {<<recvHdr.call, recvCall>>}
                   /\ lockLog' = Logged(lockLog, {"receive.done"})
                   /\ UNCHANGED drained
                   /\ IF recvHdr.err # NoErr
                      THEN calls' = completeCall(calls, recvCall, recvHdr.err)
                      ELSE IF failed
                      THEN calls' = completeCall(calls, recvCall,
                                                 Err("reading body ", "decode"))
                      ELSE calls' = completeCall([calls EXCEPT ![recvCall].Reply = item.val],
                                                 recvCall, calls[recvCall].Error)
    /\ recvPc' = "readHeader"
    /\ UNCHANGED <<seq, pending, shutdown, sending, callPc, ctxErr, callResult, cancelled,
                   recvHdr, recvCall, recvErr, reqWire, respWire, srvRead, connBroken,
                   serverVars,
                   regVars, dialVars, componentVars>>

\* receive: client.terminateCalls(err); return.  terminateCalls locks sending, then mu.
RecvTerminate ==
    /\ recvPc = "terminate"
    /\ CanLock(sending)
    /\ shutdown' = TRUE
    /\ calls' = terminateCalls(calls, pending, recvErr)
    /\ lockLog' = IF DOMAIN pending # {} THEN Logged(lockLog, {"terminateCalls.done"})
                  ELSE lockLog
    /\ recvPc' = "exited"
    /\ UNCHANGED <<seq, pending, sending, callPc, ctxErr, callResult, cancelled, recvHdr,
                   recvCall, recvErr, deliveries, drained, wireVars, serverVars,
                   regVars, dialVars, componentVars>>

\* The connection fails (the network, or the peer going away).
ConnBreak ==
    /\ ~connBroken
    /\ connBroken' = TRUE
    /\ UNCHANGED <<clientVars, reqWire, respWire, cliRead, srvRead, serverVars,
                   regVars, dialVars, extVars>>

\* ------------------------------------------------------------------ server
\* strings.LastIndex(serviceMethod, ".") and the two halves; << >> when there is no dot.
SplitServiceMethod(sm) ==
    CASE sm = "Bar.Timeout" -> <<"Bar", "Timeout">>
      [] sm = "Bar.Nope" -> <<"Bar", "Nope">>
      [] sm = "Nope.Timeout" -> <<"Nope", "Timeout">>
      [] OTHER -> << >>

\* svc.method of the service registered under a name: type Bar has the method Timeout.
MethodsOf(name) == IF name = "Bar" THEN {"Timeout"} ELSE {}

\* Server.findService: the error it returns (NoErr when the method is found).
findService(sm, smap) ==
    LET parts == SplitServiceMethod(sm)
    IN  IF parts = << >> THEN Err("rpc: invalid service method", "")
        ELSE IF parts[1] \notin DOMAIN smap THEN Err("rpc: service not found: ", parts[1])
        ELSE IF parts[2] \notin MethodsOf(parts[1]) THEN Err("rpc: method not found: ", sm)
        ELSE NoErr

\* cc.ReadBody(args) into the method's argument: Bar.Timeout takes an int.
ArgsDecodeFails(item) == DecodeFails(item, "body", "args") \/ item.val # "int"

\* fmt.Sprintf("... expect within %s", timeout)
DurationText(d) == IF d = 0 THEN "0s" ELSE "1s"

HandleTimeoutErr(d) ==
    Err("rpc server: request handle timeout: expect within ", DurationText(d))

\* The errors the user method can return.
MethodErrors == {NoErr, Err("user error", "")}

\* go s.handleRequest(...): the handler task H and the goroutine G it starts.
NewHandlerWaits(h, d) ==
    [seq |-> h.seq, sm |-> h.sm, call |-> h.call, hErr |-> h.err, gErr |-> NoErr,
     gPc |-> "call", hPc |-> "called", timedOut |-> FALSE]

NewHandler(h, d) ==
    [seq |-> h.seq, sm |-> h.sm, call |-> h.call, hErr |-> h.err, gErr |-> NoErr,
     gPc |-> "call", hPc |-> IF d = 0 THEN "called" ELSE "select",
     timedOut |-> FALSE]

InitServer ==
    /\ timeout \in HandleTimeouts
    /\ srvPc = "readHeader"
    /\ srvHdr = NoItem
    /\ srvExit = ""
    /\ handlers = << >>
    /\ srvSending = 0
    /\ wg = 0

\* The server of the client's test: startServer registers a Bar.
InitServices == serviceMap = [n \in {"Bar"} |-> 0]

\* serveCodec -> readRequest, to the end of findService: ReadHeader, findService.
\* Any error of readRequest ends the loop (break).
SrvReadHeader ==
    /\ srvPc = "readHeader"
    /\ srvRead <= Len(reqWire) \/ connBroken
    /\ IF srvRead <= Len(reqWire)
       THEN LET item == reqWire[srvRead]
            IN  /\ srvRead' = srvRead + 1
                /\ IF DecodeFails(item, "hdr", "header")
                   THEN /\ srvPc' = "wait"
                        /\ srvExit' = "ReadHeader error"
                        /\ UNCHANGED srvHdr
                   ELSE IF findService(item.sm, serviceMap) # NoErr
                   THEN /\ srvPc' = "wait"
                        /\ srvExit' = "findService error"
                        /\ srvHdr' = item
                   ELSE /\ srvPc' = "readBody"
                        /\ srvHdr' = item
                        /\ UNCHANGED srvExit
       ELSE /\ srvPc' = "wait"
            /\ srvExit' = "ReadHeader error"
            /\ UNCHANGED <<srvRead, srvHdr>>
    /\ UNCHANGED <<clientVars, reqWire, respWire, cliRead, connBroken, timeout,
                   handlers, srvSending, wg, serviceMap,
                   regVars, dialVars, extVars>>

\* readRequest, the rest, and the loop body: ReadBody(args); wg.Add(1);
\* go s.handleRequest(...).
SrvReadBody ==
    /\ srvPc = "readBody"
    /\ srvRead <= Len(reqWire) \/ connBroken
    /\ IF srvRead <= Len(reqWire)
       THEN /\ srvRead' = srvRead + 1
            /\ IF ArgsDecodeFails(reqWire[srvRead])
               THEN /\ srvPc' = "wait"
                    /\ srvExit' = "ReadBody decode error"
                    /\ UNCHANGED <<handlers, wg>>
               ELSE /\ srvPc' = "readHeader"
                    /\ handlers' = Append(handlers, NewHandler(srvHdr, timeout))
                    /\ wg' = wg + 1
                    /\ UNCHANGED srvExit
       ELSE /\ srvPc' = "wait"
            /\ srvExit' = "ReadBody read error"
            /\ UNCHANGED <<srvRead, handlers, wg>>
    /\ UNCHANGED <<clientVars, reqWire, respWire, cliRead, connBroken, timeout,
                   srvHdr, srvSending, serviceMap,
                   regVars, dialVars, extVars>>

\* wg.Wait() returns when the counter is zero.
WaitSkipped(w) == TRUE

WaitOver(w) == w = 0

\* serveCodec: wg.Wait() returns; handleConn's deferred conn.Close().
SrvClose ==
    /\ srvPc = "wait"
    /\ WaitOver(wg)
    /\ srvPc' = "closed"
    /\ connBroken' = TRUE
    /\ UNCHANGED <<clientVars, reqWire, respWire, cliRead, srvRead, timeout,
                   srvHdr, srvExit, handlers, srvSending, wg, serviceMap,
                   regVars, dialVars, extVars>>

HandlerIds == 1 .. Len(handlers)

\* G: err := req.svc.call(...) returns (the user method ends, with or without an error);
\* G is then at `called <- struct{}{}`.
MethodReturn(i, e) ==
    /\ handlers[i].gPc = "call"
    /\ handlers' = [handlers EXCEPT ![i].gErr = e, ![i].gPc = "called"]
    /\ UNCHANGED <<clientVars, wireVars, timeout, srvPc, srvHdr, srvExit, srvSending, wg,
                   serviceMap,
                   regVars, dialVars, extVars>>

\* The unbuffered channel called: G sends, H receives (line 249, or the select's
\* case <-called).  H goes on to <-sent.
Called(i) ==
    /\ handlers[i].gPc = "called"
    /\ handlers[i].hPc \in {"called", "select"}
    /\ handlers' = [handlers EXCEPT ![i].gPc = "send", ![i].hPc = "sent"]
    /\ UNCHANGED <<clientVars, wireVars, timeout, srvPc, srvHdr, srvExit, srvSending, wg,
                   serviceMap,
                   regVars, dialVars, extVars>>

\* G: req.H.Error = err.Error() when the method failed; sendResponse locks sending and
\* Codec.Write encodes the header.
GSendHeader(i) ==
    /\ handlers[i].gPc = "send"
    /\ CanLock(srvSending)
    /\ LET h == handlers[i]
           e == IF h.gErr # NoErr THEN h.gErr ELSE h.hErr
       IN  IF connBroken
           THEN /\ handlers' = [handlers EXCEPT ![i].hErr = e, ![i].gPc = "sent"]
                /\ UNCHANGED <<respWire, srvSending>>
           ELSE /\ handlers' = [handlers EXCEPT ![i].hErr = e, ![i].gPc = "sendBody"]
                /\ respWire' = Append(respWire, HdrItem(<<"G", i>>, h.sm, h.seq, e, h.call))
                /\ srvSending' = i
    /\ UNCHANGED <<clientVars, reqWire, cliRead, srvRead, connBroken, timeout, srvPc,
                   srvHdr, srvExit, wg, serviceMap,
                   regVars, dialVars, extVars>>

\* G: Codec.Write encodes the body (nil after a method error, else
\* req.Reply.Interface()); sendResponse unlocks; G is then at `sent <- struct{}{}`.
GSendBody(i) ==
    /\ handlers[i].gPc = "sendBody"
    /\ LET h == handlers[i]
           body == IF h.gErr # NoErr THEN "nil" ELSE "reply"
       IN  respWire' = IF connBroken \/ EncodeFails(body) THEN respWire
                       ELSE Append(respWire, BodyItem(<<"G", i>>, body))
    /\ handlers' = [handlers EXCEPT ![i].gPc = "sent"]
    /\ srvSending' = 0
    /\ UNCHANGED <<clientVars, reqWire, cliRead, srvRead, connBroken, timeout,
                   srvPc, srvHdr, srvExit, wg, serviceMap,
                   regVars, dialVars, extVars>>

\* The unbuffered channel sent: G sends, H receives (line 250 or 259).  With no
\* timeout H returns (the deferred wg.Done()); else it leaves the select.
Sent(i) ==
    /\ handlers[i].gPc = "sent"
    /\ handlers[i].hPc = "sent"
    /\ handlers' = [handlers EXCEPT ![i].gPc = "done",
                                    ![i].hPc = IF timeout = 0 THEN "done" ELSE "finalSend"]
    /\ wg' = IF timeout = 0 THEN wg - 1 ELSE wg
    /\ UNCHANGED <<clientVars, wireVars, timeout, srvPc, srvHdr, srvExit, srvSending,
                   serviceMap,
                   regVars, dialVars, extVars>>

\* H: the select's case <-time.After(timeout): req.H.Error = the timeout error.
TimeoutFires(i) ==
    /\ handlers[i].hPc = "select"
    /\ handlers' = [handlers EXCEPT ![i].hErr = HandleTimeoutErr(timeout),
                                    ![i].hPc = "timeoutSend", ![i].timedOut = TRUE]
    /\ UNCHANGED <<clientVars, wireVars, timeout, srvPc, srvHdr, srvExit, srvSending, wg,
                   serviceMap,
                   regVars, dialVars, extVars>>

\* H: sendResponse (line 257 after the timeout, or line 262 after the select) locks
\* sending and Codec.Write encodes the header.
HSendHeader(i) ==
    /\ handlers[i].hPc \in {"timeoutSend", "finalSend"}
    /\ CanLock(srvSending)
    /\ LET h == handlers[i]
           last == h.hPc = "finalSend"
       IN  IF connBroken
           THEN /\ handlers' = [handlers EXCEPT ![i].hPc = IF last THEN "done"
                                                           ELSE "finalSend"]
                /\ wg' = IF last THEN wg - 1 ELSE wg
                /\ UNCHANGED <<respWire, srvSending>>
           ELSE /\ handlers' = [handlers EXCEPT ![i].hPc = IF last THEN "finalBody"
                                                           ELSE "timeoutBody"]
                /\ respWire' = Append(respWire,
                                      HdrItem(<<h.hPc, i>>, h.sm, h.seq, h.hErr, h.call))
                /\ srvSending' = i
                /\ UNCHANGED wg
    /\ UNCHANGED <<clientVars, reqWire, cliRead, srvRead, connBroken, timeout, srvPc,
                   srvHdr, srvExit, serviceMap,
                   regVars, dialVars, extVars>>

\* H: Codec.Write encodes the body (req.Reply, a reflect.Value, at line 257;
\* req.Reply.Interface() at line 262); sendResponse unlocks.  After line 262 H
\* returns (the deferred wg.Done()).
HSendBody(i) ==
    /\ handlers[i].hPc \in {"timeoutBody", "finalBody"}
    /\ LET h == handlers[i]
           last == h.hPc = "finalBody"
           body == IF last THEN "reply" ELSE "reflect.Value"
       IN  /\ respWire' = IF connBroken \/ EncodeFails(body) THEN respWire
                          ELSE Append(respWire, BodyItem(<<IF last THEN "finalSend" ELSE "timeoutSend", i>>, body))
           /\ handlers' = [handlers EXCEPT ![i].hPc = IF last THEN "done" ELSE "finalSend"]
           /\ wg' = IF last THEN wg - 1 ELSE wg
    /\ srvSending' = 0
    /\ UNCHANGED <<clientVars, reqWire, cliRead, srvRead, connBroken, timeout,
                   srvPc, srvHdr, srvExit, serviceMap,
                   regVars, dialVars, extVars>>

\* ------------------------------------------------------------------ the peer
\* Responses the peer of the client may write in the client's specification.
MaxResponses == 2

\* Any server at the other end of the client's connection: for a request whose header
\* it has received it writes a response header that echoes ServiceMethod and Seq, with
\* or without an error, and then the body (or fails before the body).  It may answer a
\* request more than once, as handleRequest does.
PeerRespond(k, e, whole) ==
    /\ ~connBroken
    /\ Cardinality({j \in 1 .. Len(respWire) : respWire[j].kind = "hdr"}) < MaxResponses
    /\ k \in 1 .. Len(reqWire)
    /\ reqWire[k].kind = "hdr"
    /\ LET r == reqWire[k]
           f == <<"peer", Len(respWire)>>
           hdr == HdrItem(f, r.sm, r.seq, e, r.call)
       IN  respWire' = IF whole
                       THEN respWire \o <<hdr, BodyItem(f, IF e = NoErr THEN "reply" ELSE "nil")>>
                       ELSE Append(respWire, hdr)
    /\ UNCHANGED <<clientVars, reqWire, cliRead, srvRead, connBroken, serverVars,
                   regVars, dialVars, extVars>>

\* ------------------------------------------------------------------ Server.Register
\* Concurrent Server.Register calls.
NumRegs == 3

Regs == 1 .. NumRegs

\* service.name: the type names of the receivers registered.
ServiceNames == {"Foo", "Bar"}

\* sync.Map.LoadOrStore(key, value): the map afterwards ...
storeAlways(smap, n, v) == [k \in DOMAIN smap \cup {n} |-> IF k = n THEN v ELSE smap[k]]

loadOrStore(smap, n, v) ==
    IF n \in DOMAIN smap THEN smap
    ELSE [k \in DOMAIN smap \cup {n} |-> IF k = n THEN v ELSE smap[k]]

\* ... and its loaded result (dup).
loaded(smap, n) == n \in DOMAIN smap

AlreadyDefined(n) == Err("rpc: service already defined: ", n)

InitRegIdle ==
    /\ regPc = [r \in Regs |-> "start"]
    /\ regName = [r \in Regs |-> ""]
    /\ regErr = [r \in Regs |-> NoErr]
    /\ regOrder = << >>

\* Register: service := newService(rcvr); the receiver's type gives the name.
RegNewService(r, n) ==
    /\ regPc[r] = "start"
    /\ regName' = [regName EXCEPT ![r] = n]
    /\ regPc' = [regPc EXCEPT ![r] = "store"]
    /\ UNCHANGED <<regErr, regOrder, clientVars, wireVars, serverVars, dialVars, extVars>>

\* Register: serviceMap.LoadOrStore(service.name, service) and the return.
RegLoadOrStore(r) ==
    /\ regPc[r] = "store"
    /\ serviceMap' = loadOrStore(serviceMap, regName[r], r)
    /\ regErr' = [regErr EXCEPT ![r] = IF loaded(serviceMap, regName[r])
                                            THEN AlreadyDefined(regName[r])
                                            ELSE NoErr]
    /\ regOrder' = Append(regOrder, r)
    /\ regPc' = [regPc EXCEPT ![r] = "done"]
    /\ UNCHANGED <<regName, clientVars, wireVars, timeout, srvPc, srvHdr, srvExit,
                   handlers, srvSending, wg, dialVars, extVars>>

\* ------------------------------------------------------------------ dialTimeout
\* opt.ConnectTimeout: 0 is no limit, 1 stands for d > 0.
ConnectTimeouts == {0, 1}

\* opt.CodecType values; codec.NewCodecFuncMap holds the gob codec.
GobType == "application/gob"

CodecTypes == {GobType, "application/json"}

NewCodecFuncMap == {GobType}

\* f: Dial passes NewClient, DialHTTP passes NewHTTPClient.
Dialers == {"NewClient", "NewHTTPClient"}

\* const connected
Connected == "200 connected to Gee RPC"

\* What http.ReadResponse can give NewHTTPClient: a response with a status, or an
\* error (and then a nil response).
HTTPResponses ==
    { [err |-> NoErr, status |-> Connected],
      [err |-> NoErr, status |-> "404 Not Found"],
      [err |-> Err("read", "EOF"), status |-> ""] }

ConnectTimeoutErr(d) ==
    Err("rpc client: connect timeout: expect within ", DurationText(d))

NoResult == [client |-> "nil", err |-> NoErr]

InitDialIdle ==
    /\ connectTimeout = 0
    /\ codecType = GobType
    /\ dialer = "NewClient"
    /\ dialPc = "start"
    /\ innerPc = "none"
    /\ dClient = "nil"
    /\ dErr = NoErr
    /\ dialConn = "none"
    /\ dialResult = NoResult
    /\ fResult = NoResult
    /\ fLate = FALSE

\* conn, err := net.DialTimeout(...): on an error return nil, err.  Else the deferred
\* close is set up and the goroutine that runs f is started.
DialConnect(ok) ==
    /\ dialPc = "start"
    /\ IF ok
       THEN /\ dialConn' = "open"
            /\ innerPc' = IF dialer = "NewHTTPClient" THEN "http" ELSE "running"
            /\ dialPc' = IF connectTimeout = 0 THEN "receive" ELSE "select"
            /\ UNCHANGED <<dClient, dErr, dialResult>>
       ELSE /\ dErr' = Err("dial", "connection refused")
            /\ dClient' = "nil"
            /\ dialResult' = [client |-> "nil", err |-> Err("dial", "connection refused")]
            /\ dialPc' = "returned"
            /\ UNCHANGED <<dialConn, innerPc>>
    /\ UNCHANGED <<connectTimeout, codecType, dialer, fResult, fLate, clientVars, wireVars, serverVars, regVars, extVars>>

\* The goroutine runs f = NewHTTPClient: the CONNECT line is written, the response
\* read.  With err == nil and the status connected it goes on into NewClient.  With
\* err == nil and another status it returns (nil, err), err being nil.  With
\* err != nil the response is nil and resp.Status panics.
InnerHTTP(resp) ==
    /\ innerPc = "http"
    /\ resp.err = NoErr => dialConn = "open"
    /\ IF resp.err = NoErr /\ resp.status = Connected
       THEN /\ innerPc' = "running"
            /\ UNCHANGED <<dClient, dErr, fResult, dialPc>>
       ELSE IF resp.err # NoErr
       THEN /\ innerPc' = "panic"
            /\ dialPc' = "crashed"
            /\ UNCHANGED <<dClient, dErr, fResult>>
       ELSE /\ dClient' = "nil"
            /\ dErr' = resp.err
            /\ fResult' = [client |-> "nil", err |-> resp.err]
            /\ innerPc' = "send"
            /\ UNCHANGED dialPc
    /\ UNCHANGED <<connectTimeout, codecType, dialer, dialConn, dialResult, fLate,
                   clientVars, wireVars, serverVars, regVars, extVars>>

\* The goroutine runs f = NewClient: the codec lookup.  An unknown codec makes f
\* return (nil, error), and the goroutine executes client, err = f(conn, opt): the
\* assignment is to dialTimeout's named results, which the goroutine shares with
\* dialTimeout and its deferred function, with no synchronisation.
InnerLookup ==
    /\ innerPc = "running"
    /\ IF codecType \in NewCodecFuncMap
       THEN /\ innerPc' = "encode"
            /\ UNCHANGED <<dClient, dErr, fResult>>
       ELSE /\ dClient' = "nil"
            /\ dErr' = Err("unknown codec ", codecType)
            /\ fResult' = [client |-> "nil", err |-> Err("unknown codec ", codecType)]
            /\ innerPc' = "send"
    /\ UNCHANGED <<connectTimeout, codecType, dialer, dialPc, dialConn, dialResult, fLate,
                   clientVars, wireVars, serverVars, regVars, extVars>>

\* NewClient: json.NewEncoder(conn).Encode(opt) (it fails on a closed or failing
\* connection), the Client is made, and client, err = f(conn, opt) is executed.
InnerEncode(ok) ==
    /\ innerPc = "encode"
    /\ ok => dialConn = "open"
    /\ LET r == IF ok THEN [client |-> "client", err |-> NoErr]
                ELSE [client |-> "nil", err |-> Err("write", "broken pipe")]
       IN  /\ dClient' = r.client
           /\ dErr' = r.err
           /\ fResult' = r
    /\ innerPc' = "send"
    /\ UNCHANGED <<connectTimeout, codecType, dialer, dialPc, dialConn, dialResult, fLate,
                   clientVars, wireVars, serverVars, regVars, extVars>>

\* The unbuffered channel ch: the goroutine sends clientResult{client, err},
\* dialTimeout receives it (line 233, or the select's case result := <-ch) and
\* executes return result.client, result.err: the results are assigned.
DialReceive ==
    /\ innerPc = "send"
    /\ dialPc \in {"receive", "select"}
    /\ innerPc' = "done"
    /\ dialPc' = "deferred"
    /\ UNCHANGED <<dClient, dErr>>
    /\ UNCHANGED <<connectTimeout, codecType, dialer, dialConn, dialResult, fResult, fLate, clientVars,
                   wireVars, serverVars, regVars, extVars>>

\* The select's case <-time.After(opt.ConnectTimeout): return nil, fmt.Errorf(...)
\* assigns the results.
DialTimeoutFires ==
    /\ dialPc = "select"
    /\ dClient' = "nil"
    /\ dErr' = ConnectTimeoutErr(connectTimeout)
    /\ fLate' = (innerPc \in {"http", "running", "encode"})
    /\ dialPc' = "deferred"
    /\ UNCHANGED <<connectTimeout, codecType, dialer, innerPc, dialConn, dialResult, fResult, clientVars,
                   wireVars, serverVars, regVars, extVars>>

\* The deferred function: if err != nil { _ = conn.Close() }.
DialDeferred ==
    /\ dialPc = "deferred"
    /\ dialConn' = IF dErr # NoErr THEN "closed" ELSE dialConn
    /\ dialPc' = "exit"
    /\ UNCHANGED <<connectTimeout, codecType, dialer, innerPc, dClient, dErr, dialResult, fResult, fLate,
                   clientVars, wireVars, serverVars, regVars, extVars>>

\* dialTimeout returns: the caller gets the named results as they are now.
DialReturn ==
    /\ dialPc = "exit"
    /\ dialResult' = [client |-> dClient, err |-> dErr]
    /\ dialPc' = "returned"
    /\ UNCHANGED <<connectTimeout, codecType, dialer, innerPc, dClient, dErr, dialConn, fResult, fLate,
                   clientVars, wireVars, serverVars, regVars, extVars>>

\* ------------------------------------------------------------------ clock
\* The instants time.Now() takes in a run.
MaxTime == 4

\* Time passes.
Tick ==
    /\ now < MaxTime
    /\ now' = now + 1
    /\ UNCHANGED exceptClock

\* ------------------------------------------------------------------ GeeRegistry
\* NewGeeRegistry(timeout): the TTLs a registry is made with.
RegistryTimeouts == {0, 1, 2}

\* The addresses servers post in X-Geerpc-Server; "" is a missing or empty header.
Addrs == {"a", "b"}

ServerItem(addr, t) == [Addr |-> addr, start |-> t]

NoOp == [op |-> "none", at |-> 0, addr |-> "", before |-> {}]

\* GeeRegistry.putServer: the entry of addr gets start = now, and is made when the
\* map has none.
putServerAppend(srv, addr, t) == srv \cup {ServerItem(addr, t)}

putServer(srv, addr, t) ==
    IF \E s \in srv : s.Addr = addr
    THEN {IF s.Addr = addr THEN [s EXCEPT !.start = t] ELSE s : s \in srv}
    ELSE srv \cup {ServerItem(addr, t)}

\* GeeRegistry.aliveServers: the result (the addresses of the entries kept) ...
aliveAll(srv, t, d) == {s.Addr : s \in srv}

aliveServers(srv, t, d) == {s.Addr : s \in {x \in srv : ~(t - x.start >= d)}}

\* ... and the map afterwards: delete(r.servers, server.Addr) when
\* nowTime.Sub(server.start) >= r.timeout.
evictExpired(srv, t, d) == {x \in srv : ~(t - x.start >= d)}

InitRegistryIdle ==
    /\ rTimeout = 0
    /\ rServers = {}
    /\ httpStatus = 0
    /\ getResponse = {}
    /\ lastPost = [a \in Addrs |-> -1]
    /\ lastOp = NoOp

\* ServeHTTP, case "GET".
RegistryGet ==
    /\ getResponse' = aliveServers(rServers, now, rTimeout)
    /\ rServers' = evictExpired(rServers, now, rTimeout)
    /\ httpStatus' = 200
    /\ lastOp' = [op |-> "GET", at |-> now, addr |-> "", before |-> rServers]
    /\ UNCHANGED <<exceptRegistry, now, rTimeout, lastPost>>

\* ServeHTTP, case "POST".
RegistryPost(addr) ==
    /\ IF addr = ""
       THEN /\ httpStatus' = 500
            /\ UNCHANGED <<rServers, lastPost>>
       ELSE /\ rServers' = putServer(rServers, addr, now)
            /\ lastPost' = [lastPost EXCEPT ![addr] = now]
            /\ httpStatus' = 200
    /\ lastOp' = [op |-> "POST", at |-> now, addr |-> addr, before |-> rServers]
    /\ UNCHANGED <<exceptRegistry, now, rTimeout, getResponse>>

\* ServeHTTP, default.
RegistryOther ==
    /\ httpStatus' = 405
    /\ lastOp' = [op |-> "OTHER", at |-> now, addr |-> "", before |-> rServers]
    /\ UNCHANGED <<exceptRegistry, now, rTimeout, rServers, getResponse, lastPost>>

\* ------------------------------------------------------------------ XClient.Broadcast
\* The servers GetAll returned: one task each.
NumTasks == 2

Tasks == 1 .. NumTasks

\* What xc.call returns to a task: nil (and the task's reply value, here the task's
\* number), the server's or the connection's error, or the context's error.
CallErrors == {"server error", "context canceled"}

NoTask == [pc |-> "none", err |-> "", val |-> 0]

\* if err != nil && e == nil { e = err; cancel() }
recordError(cur, err) == IF err # "" /\ cur = "" THEN err ELSE cur

\* if err == nil && !replyDone { reply <- clonedReply; replyDone = true }
recordReplyLast(done, cur, err, val) == IF err = "" THEN val ELSE cur

recordReply(done, cur, err, val) == IF err = "" /\ ~done THEN val ELSE cur

\* wg.Wait() returns when every task has called wg.Done().
WaitReturns(ts) == \A i \in DOMAIN ts : ts[i].pc = "done"

InitBcastIdle ==
    /\ bPc = "idle"
    /\ bReplyNil = FALSE
    /\ bTasks = [i \in Tasks |-> NoTask]
    /\ bLock = 0
    /\ bE = ""
    /\ bReplyDone = FALSE
    /\ bReply = 0
    /\ bCtxDone = FALSE
    /\ bCancelBy = 0
    /\ bOrder = << >>
    /\ bResult = "none"

\* Broadcast: xc.d.GetAll(); on an error return it.  Else context.WithCancel and one
\* goroutine per server (wg.Add(1) each); Broadcast is then at wg.Wait().
BroadcastStart(ok) ==
    /\ bPc = "start"
    /\ IF ok
       THEN /\ bPc' = "wait"
            /\ bTasks' = [i \in Tasks |-> [pc |-> "call", err |-> "", val |-> 0]]
            /\ UNCHANGED bResult
       ELSE /\ bPc' = "returned"
            /\ bResult' = "discovery error"
            /\ UNCHANGED bTasks
    /\ UNCHANGED <<exceptBcast, bReplyNil, bLock, bE, bReplyDone, bReply, bCtxDone,
                   bCancelBy, bOrder>>

\* The caller's context is cancelled or runs out: the child context is done.
ParentDone ==
    /\ bPc = "wait"
    /\ ~bCtxDone
    /\ bCtxDone' = TRUE
    /\ UNCHANGED <<exceptBcast, bPc, bReplyNil, bTasks, bLock, bE, bReplyDone, bReply,
                   bCancelBy, bOrder, bResult>>

\* A task: err := xc.call(s, ctx, serviceMethod, args, clonedReply) returns.  The
\* context's error is returned only when the context is done.
TaskCall(i, err) ==
    /\ bPc = "wait"
    /\ bTasks[i].pc = "call"
    /\ err = "context canceled" => bCtxDone
    /\ bTasks' = [bTasks EXCEPT ![i] = [pc |-> "lock", err |-> err,
                                        val |-> IF err = "" THEN i ELSE 0]]
    /\ UNCHANGED <<exceptBcast, bPc, bReplyNil, bLock, bE, bReplyDone, bReply, bCtxDone,
                   bCancelBy, bOrder, bResult>>

\* A task: lock.Lock(); if err != nil && e == nil { e = err; cancel() }.
TaskRecordError(i) ==
    /\ bTasks[i].pc = "lock"
    /\ CanLock(bLock)
    /\ bLock' = i
    /\ bOrder' = Append(bOrder, i)
    /\ bE' = recordError(bE, bTasks[i].err)
    /\ IF bTasks[i].err # "" /\ bE = ""
       THEN bCtxDone' = TRUE /\ bCancelBy' = i
       ELSE UNCHANGED <<bCtxDone, bCancelBy>>
    /\ bTasks' = [bTasks EXCEPT ![i].pc = "reply"]
    /\ UNCHANGED <<exceptBcast, bPc, bReplyNil, bReplyDone, bReply, bResult>>

\* A task: if err == nil && !replyDone { reflect.ValueOf(reply).Elem().Set(...);
\* replyDone = true }, the deferred lock.Unlock() and wg.Done().  With reply == nil
\* reflect.ValueOf(reply).Elem() panics: the process ends.
TaskRecordReply(i) ==
    /\ bTasks[i].pc = "reply"
    /\ bPc = "wait"
    /\ IF bTasks[i].err = "" /\ ~bReplyDone /\ bReplyNil
       THEN /\ bPc' = "crashed"
            /\ bTasks' = [bTasks EXCEPT ![i].pc = "panic"]
            /\ UNCHANGED <<bReply, bReplyDone, bLock>>
       ELSE /\ bReply' = recordReply(bReplyDone, bReply, bTasks[i].err, bTasks[i].val)
            /\ bReplyDone' = (bReplyDone \/ bTasks[i].err = "")
            /\ bLock' = 0
            /\ bTasks' = [bTasks EXCEPT ![i].pc = "done"]
            /\ UNCHANGED bPc
    /\ UNCHANGED <<exceptBcast, bReplyNil, bE, bCtxDone, bCancelBy, bOrder, bResult>>

\* Broadcast: wg.Wait() returns; return e.
BroadcastReturn ==
    /\ bPc = "wait"
    /\ WaitReturns(bTasks)
    /\ bPc' = "returned"
    /\ bResult' = bE
    /\ UNCHANGED <<exceptBcast, bReplyNil, bTasks, bLock, bE, bReplyDone, bReply, bCtxDone,
                   bCancelBy, bOrder>>

\* ------------------------------------------------------------------ MultiServersDiscovery
\* The goroutines that call the discovery.
NumCallers == 2

Callers == 1 .. NumCallers

\* The server lists the discovery is made with and updated to.
ServerLists == {<<"a">>, <<"a", "b">>}

\* SelectMode: RandomSelect, RoundRobinSelect, and a value that is neither.
RandomSelect == 0

RoundRobinSelect == 1

SelectModes == {RandomSelect, RoundRobinSelect, 2}

NoCall == [name |-> "", servers |-> << >>, mode |-> 0]

\* sync.RWMutex: Lock returns when no writer and no reader holds the mutex, RLock
\* when no writer holds it.
CanWLock(w, r) == w = 0 /\ r = 0

CanRLock(w) == w = 0

\* Get: the addresses it can return and the index afterwards.
GetResults(servers, index, mode) ==
    CASE mode = RandomSelect ->
            {[addr |-> servers[k], err |-> "", index |-> index] : k \in 1 .. Len(servers)}
      [] mode = RoundRobinSelect ->
            {[addr |-> servers[((index + 1) % Len(servers)) + 1], err |-> "",
              index |-> (index + 1) % Len(servers)]}
      [] OTHER -> {[addr |-> "", err |-> "invalid server", index |-> index]}

InitDiscoveryIdle ==
    /\ dServers = <<"a">>
    /\ dIndex = 0
    /\ muWriter = 0
    /\ muReaders = 0
    /\ dPc = [p \in Callers |-> "idle"]
    /\ dOp = [p \in Callers |-> NoCall]
    /\ dResult = [p \in Callers |-> "none"]

\* Update(servers): m.mu.Lock().
UpdateLock(p, list) ==
    /\ dPc[p] = "idle"
    /\ CanWLock(muWriter, muReaders)
    /\ muWriter' = p
    /\ dOp' = [dOp EXCEPT ![p] = [name |-> "Update", servers |-> list, mode |-> 0]]
    /\ dPc' = [dPc EXCEPT ![p] = "assign"]
    /\ UNCHANGED <<exceptDiscovery, dServers, dIndex, muReaders, dResult>>

\* Update: m.servers = servers; return nil.  The deferred call (m.mu.RLock()) is next.
UpdateAssign(p) ==
    /\ dPc[p] = "assign"
    /\ dServers' = dOp[p].servers
    /\ dPc' = [dPc EXCEPT ![p] = "deferred"]
    /\ UNCHANGED <<exceptDiscovery, dIndex, muWriter, muReaders, dOp, dResult>>

\* Get(mode) or GetAll() is called: m.mu.RLock() is next.
ReadCall(p, name, mode) ==
    /\ dPc[p] = "idle"
    /\ dOp' = [dOp EXCEPT ![p] = [name |-> name, servers |-> << >>, mode |-> mode]]
    /\ dPc' = [dPc EXCEPT ![p] = "rlock"]
    /\ UNCHANGED <<exceptDiscovery, dServers, dIndex, muWriter, muReaders, dResult>>

\* m.mu.RLock() returns: in Get and GetAll (their first statement), and in Update
\* (its deferred call, after which Update returns with the read lock held).
RLockReturns(p) ==
    /\ dPc[p] \in {"rlock", "deferred"}
    /\ CanRLock(muWriter)
    /\ muReaders' = muReaders + 1
    /\ IF dPc[p] = "deferred"
       THEN /\ dPc' = [dPc EXCEPT ![p] = "idle"]
            /\ dResult' = [dResult EXCEPT ![p] = "nil"]
       ELSE /\ dPc' = [dPc EXCEPT ![p] = "read"]
            /\ UNCHANGED dResult
    /\ UNCHANGED <<exceptDiscovery, dServers, dIndex, muWriter, dOp>>

\* Get or GetAll: the body, the deferred m.mu.RUnlock(), the return.
ReadReturn(p) ==
    /\ dPc[p] = "read"
    /\ IF dOp[p].name = "GetAll"
       THEN /\ dResult' = [dResult EXCEPT ![p] = dServers]
            /\ UNCHANGED dIndex
       ELSE \E r \in GetResults(dServers, dIndex, dOp[p].mode) :
                /\ dResult' = [dResult EXCEPT ![p] = IF r.err = "" THEN r.addr ELSE r.err]
                /\ dIndex' = r.index
    /\ muReaders' = muReaders - 1
    /\ dPc' = [dPc EXCEPT ![p] = "idle"]
    /\ UNCHANGED <<exceptDiscovery, dServers, muWriter, dOp>>

\* ------------------------------------------------------------------ XClient.dial
\* The Clients XDial makes in a run.
MaxClients == 3

ClientIds == 1 .. MaxClients

NewClientState == [closing |-> FALSE, shutdown |-> FALSE]

NoDial == [addr |-> "", cached |-> 0, wasAvailable |-> FALSE, closed |-> 0, ret |-> 0,
           err |-> ""]

\* Client.IsAvailable(): true iff neither closing nor shutdown.
IsAvailable(st) == ~st.closing /\ ~st.shutdown

\* Client.Close(): sets closing (and closes the codec).
Close(st) == [st EXCEPT !.closing = TRUE]

InitXClientIdle ==
    /\ xClients = [a \in Addrs |-> 0]
    /\ xState = [c \in ClientIds |-> NewClientState]
    /\ xMade = 0
    /\ lastDial = NoDial

\* xc.dial(rpcAddr), under xc.mu: c, ok := xc.clients[rpcAddr]; if ok &&
\* c.IsAvailable() { c.Close(); c = nil }; if c == nil { c, err = XDial(...); on an
\* error return nil, err; xc.clients[rpcAddr] = c }; return c, nil.
XClientDial(addr, dialOk) ==
    /\ dialOk => xMade < MaxClients
    /\ LET cached == xClients[addr]
           ok == cached # 0
           closes == ok /\ IsAvailable(xState[cached])
           c == IF closes THEN 0 ELSE cached
           st == IF closes THEN [xState EXCEPT ![cached] = Close(xState[cached])]
                 ELSE xState
           d == [addr |-> addr, cached |-> cached,
                 wasAvailable |-> ok /\ IsAvailable(xState[cached]),
                 closed |-> IF closes THEN cached ELSE 0, ret |-> 0, err |-> ""]
       IN  /\ xState' = st
           /\ IF c = 0
              THEN IF dialOk
                   THEN /\ xMade' = xMade + 1
                        /\ xClients' = [xClients EXCEPT ![addr] = xMade + 1]
                        /\ lastDial' = [d EXCEPT !.ret = xMade + 1]
                   ELSE /\ lastDial' = [d EXCEPT !.err = "dial error"]
                        /\ UNCHANGED <<xMade, xClients>>
              ELSE /\ lastDial' = [d EXCEPT !.ret = c]
                   /\ UNCHANGED <<xMade, xClients>>
    /\ UNCHANGED exceptXClient

\* A cached Client's connection fails: its receive loop ends in terminateCalls, which
\* sets shutdown.
XClientShutdown(c) ==
    /\ c <= xMade
    /\ ~xState[c].shutdown
    /\ xState' = [xState EXCEPT ![c].shutdown = TRUE]
    /\ UNCHANGED <<exceptXClient, xClients, xMade, lastDial>>

\* ------------------------------------------------------------------ GeeRegistryDiscovery
\* The characters of an X-Geerpc-Servers header value, and its longest length.
HeaderChars == {"a", " ", ","}

MaxHeaderLen == 3

\* A string is the sequence of its characters.
Headers == UNION {[1 .. n -> HeaderChars] : n \in 0 .. MaxHeaderLen}

\* NewGeeRegistryDiscovery(registerAddr, timeout): the refresh intervals.
RefreshIntervals == {0, 2}

\* lastUpdate: time.Time{}, an instant long before any time.Now().
ZeroTime == 0 - (MaxTime + 3)

\* The lists Update is called with.
UpdateLists == {<< >>, << <<"a">> >>, << <<"a", "a">>, <<"a">> >>}

NoRefresh == [op |-> "none", got |-> FALSE, err |-> "", input |-> << >>, flip |-> 0]

\* strings.Split(s, ","): the pieces between the commas (one piece, s, when there is
\* no comma).
RECURSIVE Split(_)
Split(s) ==
    IF \A k \in 1 .. Len(s) : s[k] # "," THEN <<s>>
    ELSE LET k == CHOOSE i \in 1 .. Len(s) : s[i] = "," /\ \A j \in 1 .. (i - 1) : s[j] # ","
         IN  <<SubSeq(s, 1, k - 1)>> \o Split(SubSeq(s, k + 1, Len(s)))

\* strings.TrimSpace(s): s without its leading and trailing white space.
RECURSIVE TrimLeft(_)
TrimLeft(s) == IF s # << >> /\ Head(s) = " " THEN TrimLeft(Tail(s)) ELSE s

RECURSIVE TrimRight(_)
TrimRight(s) ==
    IF s # << >> /\ s[Len(s)] = " " THEN TrimRight(SubSeq(s, 1, Len(s) - 1)) ELSE s

TrimNothing(s) == s

TrimSpace(s) == TrimRight(TrimLeft(s))

\* Refresh, lines 125-131: the entries appended to d.servers.
RECURSIVE TrimmedNonEmpty(_)
TrimmedNonEmpty(pieces) ==
    IF pieces = << >> THEN << >>
    ELSE (IF TrimSpace(Head(pieces)) # << >> THEN <<TrimSpace(Head(pieces))>> ELSE << >>)
         \o TrimmedNonEmpty(Tail(pieces))

\* Refresh, line 117: d.lastUpdate.Add(d.timeout).After(time.Now()) makes it return
\* at once.
NotDue(last, d, t) == last + d > t

InitRefreshIdle ==
    /\ rdTimeout = 0
    /\ rdLastUpdate = ZeroTime
    /\ rdPc = "idle"
    /\ rdOp = ""
    /\ rdErr = "none"
    /\ rdLast = NoRefresh

\* Refresh(), under d.mu: called directly, or as the first statement of Get and
\* GetAll, which return its error or go on to the embedded discovery's method.
\* getOk is whether the http.Get, when it is made, succeeds; header is the
\* X-Geerpc-Servers value of its response.
RefreshCall(name, getOk) ==
    /\ rdPc = "idle"
    /\ LET skip == NotDue(rdLastUpdate, rdTimeout, now)
           failed == ~skip /\ ~getOk
       IN  /\ IF skip \/ failed
              THEN /\ UNCHANGED <<dServers, rdLastUpdate>>
                   /\ rdLast' = [op |-> "Refresh", got |-> ~skip,
                                 err |-> IF failed THEN "get error" ELSE "",
                                 input |-> << >>, flip |-> 1 - rdLast.flip]
              ELSE \E header \in Headers :
                      /\ dServers' = TrimmedNonEmpty(Split(header))
                      /\ rdLastUpdate' = now
                      /\ rdLast' = [op |-> "Refresh", got |-> TRUE, err |-> "",
                                    input |-> header, flip |-> 1 - rdLast.flip]
           /\ IF failed \/ name = "Refresh"
              THEN /\ rdErr' = IF failed THEN "get error" ELSE "nil"
                   /\ rdPc' = "idle"
                   /\ UNCHANGED rdOp
              ELSE /\ rdPc' = "inner"
                   /\ rdOp' = name
                   /\ UNCHANGED rdErr
    /\ UNCHANGED <<exceptRefresh, rdTimeout, dIndex>>

\* Get and GetAll, the rest: d.MultiServersDiscovery.Get(mode) or .GetAll().  On an
\* empty list Get's Intn(0) and its % 0 panic.
RefreshedRead(mode) ==
    /\ rdPc = "inner"
    /\ IF rdOp = "GetAll"
       THEN /\ rdErr' = "nil"
            /\ rdPc' = "idle"
            /\ rdOp' = ""
            /\ UNCHANGED dIndex
       ELSE IF dServers = << >> /\ mode \in {RandomSelect, RoundRobinSelect}
       THEN /\ rdPc' = "crashed"
            /\ UNCHANGED <<rdErr, dIndex, rdOp>>
       ELSE \E r \in GetResults(dServers, dIndex, mode) :
                /\ rdErr' = IF r.err = "" THEN "nil" ELSE r.err
                /\ dIndex' = r.index
                /\ rdPc' = "idle"
                /\ rdOp' = ""
    /\ UNCHANGED <<exceptRefresh, rdTimeout, rdLastUpdate, rdLast, dServers>>

\* GeeRegistryDiscovery.Update(servers), under d.mu.
RefreshUpdate(list) ==
    /\ rdPc # "crashed"
    /\ rdLastUpdate' = now
    /\ dServers' = list
    /\ rdLast' = [op |-> "Update", got |-> FALSE, err |-> "", input |-> list,
                 flip |-> 1 - rdLast.flip]
    /\ UNCHANGED <<exceptRefresh, rdTimeout, rdPc, rdOp, rdErr, dIndex>>

\* ------------------------------------------------------------------ Get(RoundRobinSelect)
\* The Get calls made in a run.
MaxGets == 4

\* The lists the discovery is made with: NewMultiServersDiscovery(servers).
RoundRobinLists == {<<"a">>, <<"a", "b">>, <<"a", "b", "c">>}

\* m.index = m.r.Intn(math.MaxInt32 - 1): any index from 0 on, and no overflow in
\* m.index + 1.
InitialIndexes == {0, 1, 5}

NextIndexSame(index, n) == index % n

\* (m.index + 1) % len(m.servers)
NextIndex(index, n) == (index + 1) % n

InitRoundRobinIdle ==
    /\ rrPc = [p \in Callers |-> "idle"]
    /\ rrLocal = [p \in Callers |-> 0]
    /\ rrOverlap = [p \in Callers |-> FALSE]
    /\ rrLog = << >>

\* The callers inside Get.
InGet == {p \in Callers : rrPc[p] # "idle"}

\* Get(RoundRobinSelect) is called and m.mu.RLock() returns: a read lock does not
\* keep other readers out.
RoundRobinCall(p) ==
    /\ rrPc[p] = "idle"
    /\ Len(rrLog) + Cardinality(InGet) < MaxGets
    /\ CanRLock(muWriter)
    /\ muReaders' = muReaders + 1
    /\ rrPc' = [rrPc EXCEPT ![p] = "load"]
    /\ rrOverlap' = [q \in Callers |-> IF q = p THEN InGet # {}
                                      ELSE rrOverlap[q] \/ q \in InGet]
    /\ UNCHANGED <<exceptRoundRobin, dIndex, rrLocal, rrLog>>

\* m.index = (m.index + 1) % len(m.servers), the right-hand side: m.index is read.
RoundRobinLoad(p) ==
    /\ rrPc[p] = "load"
    /\ rrLocal' = [rrLocal EXCEPT ![p] = NextIndex(dIndex, Len(dServers))]
    /\ rrPc' = [rrPc EXCEPT ![p] = "store"]
    /\ UNCHANGED <<exceptRoundRobin, dIndex, muReaders, rrOverlap, rrLog>>

\* The assignment: m.index is written.
RoundRobinStore(p) ==
    /\ rrPc[p] = "store"
    /\ dIndex' = rrLocal[p]
    /\ rrPc' = [rrPc EXCEPT ![p] = "return"]
    /\ UNCHANGED <<exceptRoundRobin, muReaders, rrLocal, rrOverlap, rrLog>>

\* return m.servers[m.index], nil and the deferred m.mu.RUnlock(): the index is the
\* value just assigned, or m.index read again (reload), which another Get may have
\* written meanwhile.
RoundRobinReturn(p, reload) ==
    /\ rrPc[p] = "return"
    /\ LET k == IF reload THEN dIndex ELSE rrLocal[p]
       IN  rrLog' = Append(rrLog, [addr |-> dServers[k + 1], overlapped |-> rrOverlap[p]])
    /\ muReaders' = muReaders - 1
    /\ rrPc' = [rrPc EXCEPT ![p] = "idle"]
    /\ UNCHANGED <<exceptRoundRobin, dIndex, rrLocal, rrOverlap>>

\* ------------------------------------------------------------------ idle parts
InitExtIdle ==
    /\ lockLog = {}
    /\ now = 0
    /\ InitRegistryIdle
    /\ InitBcastIdle
    /\ InitDiscoveryIdle
    /\ InitXClientIdle
    /\ InitRefreshIdle
    /\ InitRoundRobinIdle

\* ------------------------------------------------------------------ specifications
\* The client, with any peer on its connection.
Init ==
    /\ InitClient
    /\ InitWire
    /\ InitServer
    /\ InitServices
    /\ timeout = 0
    /\ InitRegIdle
    /\ InitDialIdle
    /\ InitExtIdle

Next ==
    \/ \E c \in Calls : CallSend(c, TestMethod, TestArgs)
    \/ \E c \in Calls : CallSendBody(c)
    \/ \E c \in Calls, e \in CtxErrors : CtxCancel(c, e)
    \/ \E c \in Calls : CallCtxDone(c)
    \/ \E c \in Calls : CallDone(c)
    \/ RecvHeader
    \/ RecvBody
    \/ RecvTerminate
    \/ ConnBreak
    \/ \E k \in 1 .. (2 * NumCalls), e \in MethodErrors, whole \in BOOLEAN :
            PeerRespond(k, e, whole)

Spec == Init /\ [][Next]_vars

\* The server's side of a connection: the client's senders write the requests, the
\* server reads them, handles them and writes the responses.
InitServe ==
    /\ InitClient
    /\ InitWire
    /\ InitServer
    /\ InitServices
    /\ InitRegIdle
    /\ InitDialIdle
    /\ InitExtIdle

NextServe ==
    \/ \E c \in Calls, sm \in ServiceMethods, a \in ArgValues : CallSend(c, sm, a)
    \/ \E c \in Calls : CallSendBody(c)
    \/ ConnBreak
    \/ SrvReadHeader
    \/ SrvReadBody
    \/ SrvClose
    \/ \E i \in HandlerIds, e \in MethodErrors : MethodReturn(i, e)
    \/ \E i \in HandlerIds : Called(i)
    \/ \E i \in HandlerIds : GSendHeader(i)
    \/ \E i \in HandlerIds : GSendBody(i)
    \/ \E i \in HandlerIds : Sent(i)
    \/ \E i \in HandlerIds : TimeoutFires(i)
    \/ \E i \in HandlerIds : HSendHeader(i)
    \/ \E i \in HandlerIds : HSendBody(i)

SpecServe == InitServe /\ [][NextServe]_vars

\* The steps of a handler task and of the goroutine it starts that the scheduler and
\* the timer bring about: every one but the return of the user method, which may
\* never come.
HandlerStep(i) ==
    \/ Called(i)
    \/ GSendHeader(i)
    \/ GSendBody(i)
    \/ Sent(i)
    \/ TimeoutFires(i)
    \/ HSendHeader(i)
    \/ HSendBody(i)

\* The same with a fair scheduler: a goroutine that can go on does, time.After
\* fires, and wg.Wait() returns once the counter has reached zero.
SpecServeFair ==
    /\ InitServe
    /\ [][NextServe]_vars
    /\ WF_vars(\E i \in HandlerIds : HandlerStep(i))
    /\ WF_vars(SrvClose)

\* Register calls on a server that starts with no service.
InitRegister ==
    /\ InitClient
    /\ InitWire
    /\ InitServer
    /\ timeout = 0
    /\ serviceMap = << >>
    /\ InitRegIdle
    /\ InitDialIdle
    /\ InitExtIdle

NextRegister ==
    \/ \E r \in Regs, n \in ServiceNames : RegNewService(r, n)
    \/ \E r \in Regs : RegLoadOrStore(r)

SpecRegister == InitRegister /\ [][NextRegister]_vars

\* One dialTimeout call.
InitDial ==
    /\ InitClient
    /\ InitWire
    /\ InitServer
    /\ InitServices
    /\ timeout = 0
    /\ InitRegIdle
    /\ connectTimeout \in ConnectTimeouts
    /\ codecType \in CodecTypes
    /\ dialer \in Dialers
    /\ dialPc = "start"
    /\ innerPc = "none"
    /\ dClient = "nil"
    /\ dErr = NoErr
    /\ dialConn = "none"
    /\ dialResult = NoResult
    /\ fResult = NoResult
    /\ fLate = FALSE
    /\ InitExtIdle

NextDial ==
    \/ \E ok \in BOOLEAN : DialConnect(ok)
    \/ \E resp \in HTTPResponses : InnerHTTP(resp)
    \/ InnerLookup
    \/ \E ok \in BOOLEAN : InnerEncode(ok)
    \/ DialReceive
    \/ DialTimeoutFires
    \/ DialDeferred
    \/ DialReturn

SpecDial == InitDial /\ [][NextDial]_vars

\* The registry: servers post heartbeats, clients get the list, time passes.
InitCore ==
    /\ InitClient
    /\ InitWire
    /\ InitServer
    /\ InitServices
    /\ timeout = 0
    /\ InitRegIdle
    /\ InitDialIdle

InitRegistry ==
    /\ InitCore
    /\ lockLog = {}
    /\ now = 0
    /\ rTimeout \in RegistryTimeouts
    /\ rServers = {}
    /\ httpStatus = 0
    /\ getResponse = {}
    /\ lastPost = [a \in Addrs |-> -1]
    /\ lastOp = NoOp
    /\ InitBcastIdle
    /\ InitDiscoveryIdle
    /\ InitXClientIdle
    /\ InitRefreshIdle
    /\ InitRoundRobinIdle

NextRegistry ==
    \/ Tick
    \/ RegistryGet
    \/ \E addr \in Addrs \cup {""} : RegistryPost(addr)
    \/ RegistryOther

SpecRegistry == InitRegistry /\ [][NextRegistry]_vars

\* One Broadcast call.
InitBroadcast ==
    /\ InitCore
    /\ lockLog = {}
    /\ now = 0
    /\ InitRegistryIdle
    /\ bPc = "start"
    /\ bReplyNil \in BOOLEAN
    /\ bTasks = [i \in Tasks |-> NoTask]
    /\ bLock = 0
    /\ bE = ""
    /\ bReplyDone = FALSE
    /\ bReply = 0
    /\ bCtxDone = FALSE
    /\ bCancelBy = 0
    /\ bOrder = << >>
    /\ bResult = "none"
    /\ InitDiscoveryIdle
    /\ InitXClientIdle
    /\ InitRefreshIdle
    /\ InitRoundRobinIdle

NextBroadcast ==
    \/ \E ok \in BOOLEAN : BroadcastStart(ok)
    \/ ParentDone
    \/ \E i \in Tasks, err \in CallErrors \cup {""} : TaskCall(i, err)
    \/ \E i \in Tasks : TaskRecordError(i)
    \/ \E i \in Tasks : TaskRecordReply(i)
    \/ BroadcastReturn

SpecBroadcast == InitBroadcast /\ [][NextBroadcast]_vars

\* Goroutines calling Update, Get and GetAll on one MultiServersDiscovery.
InitDiscovery ==
    /\ InitCore
    /\ lockLog = {}
    /\ now = 0
    /\ InitRegistryIdle
    /\ InitBcastIdle
    /\ dServers \in ServerLists
    /\ dIndex \in {0, 1}
    /\ muWriter = 0
    /\ muReaders = 0
    /\ dPc = [p \in Callers |-> "idle"]
    /\ dOp = [p \in Callers |-> NoCall]
    /\ dResult = [p \in Callers |-> "none"]
    /\ InitXClientIdle
    /\ InitRefreshIdle
    /\ InitRoundRobinIdle

NextDiscovery ==
    \/ \E p \in Callers, list \in ServerLists : UpdateLock(p, list)
    \/ \E p \in Callers : UpdateAssign(p)
    \/ \E p \in Callers, mode \in SelectModes : ReadCall(p, "Get", mode)
    \/ \E p \in Callers : ReadCall(p, "GetAll", 0)
    \/ \E p \in Callers : RLockReturns(p)
    \/ \E p \in Callers : ReadReturn(p)

SpecDiscovery == InitDiscovery /\ [][NextDiscovery]_vars

\* dial calls on one XClient, and the failures of the connections of its Clients.
InitXClient ==
    /\ InitCore
    /\ lockLog = {}
    /\ now = 0
    /\ InitRegistryIdle
    /\ InitBcastIdle
    /\ InitDiscoveryIdle
    /\ InitXClientIdle
    /\ InitRefreshIdle
    /\ InitRoundRobinIdle

NextXClient ==
    \/ \E addr \in Addrs, dialOk \in BOOLEAN : XClientDial(addr, dialOk)
    \/ \E c \in ClientIds : XClientShutdown(c)

SpecXClient == InitXClient /\ [][NextXClient]_vars

\* One GeeRegistryDiscovery: Refresh, Get, GetAll and Update calls, time passing.
InitRefresh ==
    /\ InitCore
    /\ lockLog = {}
    /\ now = 0
    /\ InitRegistryIdle
    /\ InitBcastIdle
    /\ InitXClientIdle
    /\ InitRoundRobinIdle
    /\ dServers = << >>
    /\ dIndex = 0
    /\ muWriter = 0
    /\ muReaders = 0
    /\ dPc = [p \in Callers |-> "idle"]
    /\ dOp = [p \in Callers |-> NoCall]
    /\ dResult = [p \in Callers |-> "none"]
    /\ rdTimeout \in RefreshIntervals
    /\ rdLastUpdate = ZeroTime
    /\ rdPc = "idle"
    /\ rdOp = ""
    /\ rdErr = "none"
    /\ rdLast = NoRefresh

NextRefresh ==
    \/ Tick
    \/ \E name \in {"Refresh", "Get", "GetAll"}, getOk \in BOOLEAN : RefreshCall(name, getOk)
    \/ \E mode \in SelectModes : RefreshedRead(mode)
    \/ \E list \in UpdateLists : RefreshUpdate(list)

SpecRefresh == InitRefresh /\ [][NextRefresh]_vars

\* One MultiServersDiscovery with a fixed list: Get(RoundRobinSelect) calls of
\* several goroutines.
InitRoundRobin ==
    /\ InitCore
    /\ lockLog = {}
    /\ now = 0
    /\ InitRegistryIdle
    /\ InitBcastIdle
    /\ InitXClientIdle
    /\ InitRefreshIdle
    /\ InitRoundRobinIdle
    /\ dServers \in RoundRobinLists
    /\ dIndex \in InitialIndexes
    /\ muWriter = 0
    /\ muReaders = 0
    /\ dPc = [p \in Callers |-> "idle"]
    /\ dOp = [p \in Callers |-> NoCall]
    /\ dResult = [p \in Callers |-> "none"]

NextRoundRobin ==
    \/ \E p \in Callers : RoundRobinCall(p)
    \/ \E p \in Callers : RoundRobinLoad(p)
    \/ \E p \in Callers : RoundRobinStore(p)
    \/ \E p \in Callers, reload \in BOOLEAN : RoundRobinReturn(p, reload)

SpecRoundRobin == InitRoundRobin /\ [][NextRoundRobin]_vars

\* ------------------------------------------------------------------ properties
InPending(c) == \E s \in DOMAIN pending : pending[s] = c

\* C1: every call in pending is registered under its own Seq, no two calls that are
\* in pending at the same time share a Seq, and every response receive has delivered
\* went to the call whose request (the one that carried header.Seq) it answers.
C1_SeqCorrelation ==
    /\ \A s \in DOMAIN pending : calls[pending[s]].Seq = s
    /\ \A c1, c2 \in Calls :
          c1 # c2 /\ InPending(c1) /\ InPending(c2) => calls[c1].Seq # calls[c2].Seq
    /\ \A d \in deliveries : d[1] = d[2]

\* A response was delivered to a call registered after another call that is still pending.
C1_Witness ==
    \E c1, c2 \in Calls :
        /\ InPending(c1)
        /\ calls[c2].Seq > calls[c1].Seq
        /\ <<c2, c2>> \in deliveries
        /\ calls[c2].signalled = 1

C5_Returned(c) ==
    callPc[c] = "returned" /\ callResult[c].msg = "rpc client: call failed: " =>
        /\ callResult[c] = CallFailed(ctxErr[c])
        /\ ctxErr[c] \in CtxErrors
        /\ ~InPending(c)
        /\ calls[c].Seq \notin DOMAIN pending

C5_CancelDrains ==
    [][\A c \in Calls :
          /\ C5_Returned(c)'
          /\ cancelled[c] => /\ calls'[c].signalled = calls[c].signalled
                             /\ calls'[c].Done = calls[c].Done
                             /\ calls'[c].Reply = calls[c].Reply
                             /\ calls'[c].Error = calls[c].Error
                             /\ \A d \in deliveries' \ deliveries : d[2] # c]_vars

\* A cancelled call's response arrived later and was drained.
C5_Witness ==
    \E c \in Calls :
        /\ callPc[c] = "returned"
        /\ cancelled[c]
        /\ c \in drained
        /\ recvPc = "readHeader"
        /\ calls[c].Reply = ""

\* C7: the step of receive that follows a ReadHeader error (terminateCalls) sets
\* shutdown and gives every call then in pending that error and one Done signal; and
\* receive, once it has returned, reads nothing more.
C7_TerminateNotifies ==
    [][/\ recvPc = "terminate" /\ recvPc' = "exited" =>
            /\ shutdown'
            /\ \A c \in Calls : InPending(c) =>
                  /\ calls'[c].Error = recvErr
                  /\ calls'[c].signalled = calls[c].signalled + 1
                  /\ calls'[c].Done = calls[c].Done + 1
       /\ recvPc = "exited" => recvPc' = "exited" /\ cliRead' = cliRead]_vars

\* receive has returned after a read error with two calls pending, both notified.
C7_Witness ==
    /\ recvPc = "exited"
    /\ shutdown
    /\ recvErr # NoErr
    /\ \A c \in Calls : InPending(c) /\ calls[c].Error = recvErr /\ calls[c].signalled = 1

\* The response headers the server wrote for the request handler i serves.
ResponsesOf(i) ==
    {j \in 1 .. Len(respWire) : respWire[j].kind = "hdr" /\ respWire[j].frame[2] = i}

\* The response bodies the server wrote for the request handler i serves.
BodiesOf(i) ==
    {j \in 1 .. Len(respWire) : respWire[j].kind = "body" /\ respWire[j].frame[2] = i}

\* C3 as stated: for every request read completely (one with a handler) the server
\* writes at most one response header and at most one response body, and exactly one
\* of each once its handler has returned on a connection that did not fail.
C3_OneResponsePerRequest ==
    \A i \in HandlerIds :
        /\ Cardinality(ResponsesOf(i)) <= 1
        /\ Cardinality(BodiesOf(i)) <= 1
        /\ handlers[i].hPc = "done" /\ ~connBroken =>
              Cardinality(ResponsesOf(i)) = 1 /\ Cardinality(BodiesOf(i)) = 1

\* C4 as stated: once the handle timeout has expired for a request, the responses
\* written for it are one at most, that one carries the timeout error and a nil
\* reply, and nothing is written for it by a later step.
C4_TimeoutResponse ==
    \A i \in HandlerIds :
        handlers[i].timedOut =>
            /\ \A j, k \in ResponsesOf(i) : j = k
            /\ \A j \in ResponsesOf(i) : respWire[j].err = HandleTimeoutErr(timeout)
            /\ \A j \in BodiesOf(i) : respWire[j].val = "nil"
            /\ handlers[i].hPc = "done" /\ ~connBroken => ResponsesOf(i) # {}

\* C6: on the request stream and on the response stream alike, every body stands
\* right after the header of its own frame, a header's body (when it was written) is
\* the very next item, and while a writer is between its header and its body its
\* header is the last item of the stream.
Contiguous(w) ==
    /\ \A k \in 1 .. Len(w) :
          w[k].kind = "body" => k > 1 /\ w[k - 1].kind = "hdr" /\ w[k - 1].frame = w[k].frame
    /\ \A j, k \in 1 .. Len(w) :
          w[j].kind = "hdr" /\ k # j /\ w[k].frame = w[j].frame => k = j + 1

C6_SendAtomicity ==
    /\ Contiguous(reqWire)
    /\ Contiguous(respWire)
    /\ \A c \in Calls :
          callPc[c] = "body" =>
              /\ sending = c
              /\ Len(reqWire) > 0
              /\ reqWire[Len(reqWire)] = HdrItem(<<"send", c>>, calls[c].ServerMethod,
                                                 calls[c].Seq, NoErr, c)
    /\ \A i \in HandlerIds :
          handlers[i].gPc = "sendBody" \/ handlers[i].hPc \in {"timeoutBody", "finalBody"} =>
              /\ srvSending = i
              /\ Len(respWire) > 0
              /\ respWire[Len(respWire)].kind = "hdr"
              /\ respWire[Len(respWire)].frame[2] = i

\* Two requests are on the request stream, one response pair is on the response
\* stream, and a second sender of the server waits for the lock while the first is
\* between its header and its body.
C6_Witness ==
    /\ \E c1, c2 \in Calls :
          /\ c1 # c2
          /\ \E j, k \in 1 .. Len(reqWire) :
                reqWire[j].frame = <<"send", c1>> /\ reqWire[k].frame = <<"send", c2>>
    /\ \E i, j \in HandlerIds :
          /\ i # j
          /\ srvSending = i
          /\ handlers[j].gPc = "send" \/ handlers[j].hPc \in {"timeoutSend", "finalSend"}
          /\ BodiesOf(j) # {}

\* C8 as stated: the serve loop does not end on a request that fails on its own (an
\* unknown or malformed ServiceMethod, a body that does not decode).
C8_RequestErrorsAnswered ==
    srvExit \notin {"findService error", "ReadBody decode error"}

\* C9 as stated: when the handshake function had not finished as the timeout case was
\* taken, dialTimeout returns (nil, the connect timeout error) and the connection is
\* closed; with ConnectTimeout = 0 it returns what the handshake function returned.
C9_DialTimeout ==
    dialPc = "returned" /\ dialConn # "none" =>
        /\ fLate => /\ dialResult = [client |-> "nil", err |-> ConnectTimeoutErr(connectTimeout)]
                    /\ dialConn = "closed"
        /\ connectTimeout = 0 => dialResult = fResult

\* The Register call whose LoadOrStore came first among those of the name n.
FirstRegistered(n) ==
    regOrder[CHOOSE k \in 1 .. Len(regOrder) :
                /\ regName[regOrder[k]] = n
                /\ \A j \in 1 .. (k - 1) : regName[regOrder[j]] # n]

\* C10: of the Register calls made for a name, the one whose LoadOrStore came first
\* returned nil, every other returned "rpc: service already defined: <name>", and the
\* service stored under the name is the first one's.
C10_FirstRegistrationWins ==
    /\ \A r \in Regs :
          regPc[r] = "done" =>
              /\ regErr[r] = IF r = FirstRegistered(regName[r]) THEN NoErr
                                ELSE AlreadyDefined(regName[r])
              /\ regName[r] \in DOMAIN serviceMap
              /\ serviceMap[regName[r]] = FirstRegistered(regName[r])
    /\ \A n \in DOMAIN serviceMap : \E r \in Regs : regPc[r] = "done" /\ regName[r] = n

\* Three Register calls have returned, two of them for one name: one of the two
\* succeeded, the other was refused.
C10_Witness ==
    /\ \A r \in Regs : regPc[r] = "done"
    /\ \E r1, r2 \in Regs :
          /\ r1 # r2
          /\ regName[r1] = regName[r2]
          /\ regErr[r1] = NoErr
          /\ regErr[r2] = AlreadyDefined(regName[r2])
          /\ serviceMap[regName[r1]] = r1

\* C11: right after a GET, an address whose last accepted POST is at least the TTL
\* old is neither in the X-Geerpc-Servers response nor in the registry map.
C11_RegistryTTL ==
    lastOp.op = "GET" /\ lastOp.at = now =>
        \A a \in Addrs :
            lastPost[a] >= 0 /\ now - lastPost[a] >= rTimeout =>
                /\ a \notin getResponse
                /\ \A s \in rServers : s.Addr # a

\* A GET has just evicted an address that was in the map, and kept another.
C11_Witness ==
    /\ lastOp.op = "GET"
    /\ lastOp.at = now
    /\ rTimeout > 0
    /\ \E a, b \in Addrs :
          /\ \E s \in lastOp.before : s.Addr = a
          /\ a \notin getResponse
          /\ \A s \in rServers : s.Addr # a
          /\ b \in getResponse

\* C12: the map holds one entry per address at most, and its start is the time of the
\* address's last accepted POST; a POST of a non-empty address answers 200 and leaves
\* the address in the map with start = now; a POST with an empty address answers 500
\* and leaves the map as it was; and right after a GET, an address whose last POST is
\* less than the TTL old is in the response.
C12_PostUpserts ==
    /\ \A s1, s2 \in rServers : s1.Addr = s2.Addr => s1 = s2
    /\ \A s \in rServers : s.Addr \in Addrs /\ s.start = lastPost[s.Addr]
    /\ lastOp.op = "POST" /\ lastOp.addr # "" =>
          /\ httpStatus = 200
          /\ ServerItem(lastOp.addr, lastOp.at) \in rServers
          /\ \A s \in lastOp.before : s.Addr # lastOp.addr => s \in rServers
          /\ \A s \in rServers : s.Addr # lastOp.addr => s \in lastOp.before
    /\ lastOp.op = "POST" /\ lastOp.addr = "" =>
          /\ httpStatus = 500
          /\ rServers = lastOp.before
    /\ lastOp.op = "GET" /\ lastOp.at = now =>
          \A a \in Addrs :
              lastPost[a] >= 0 /\ now - lastPost[a] < rTimeout => a \in getResponse

\* A POST has just refreshed the entry of an address that was in the map with an
\* older start; the map has still one entry for it.
C12_Witness ==
    /\ lastOp.op = "POST"
    /\ lastOp.at = now
    /\ \E s \in lastOp.before : s.Addr = lastOp.addr /\ s.start < now
    /\ ServerItem(lastOp.addr, now) \in rServers
    /\ Cardinality(rServers) = Cardinality(lastOp.before)

\* The places in bOrder of the tasks whose call succeeded, and of those whose call failed.
Succeeded == {k \in 1 .. Len(bOrder) : bTasks[bOrder[k]].err = ""}

Failed == {k \in 1 .. Len(bOrder) : bTasks[bOrder[k]].err # ""}

FirstOf(ks) == CHOOSE k \in ks : \A j \in ks : k <= j

\* C13: when Broadcast has returned after starting its tasks, every task has
\* completed (each took the lock once); the shared reply holds the value of the first
\* task that succeeded, or is as the caller left it when none did; the error returned
\* is the error of the first task that failed, or nil when none did; and that first
\* failing task, and no other, called cancel() on the child context.
C13_Broadcast ==
    /\ bReply # 0 => \E i \in Tasks : bReply = bTasks[i].val /\ bTasks[i].err = ""
    /\ bPc = "returned" /\ bResult # "discovery error" =>
          /\ \A i \in Tasks : bTasks[i].pc = "done"
          /\ bLock = 0
          /\ Len(bOrder) = NumTasks
          /\ \A i \in Tasks : \E k \in 1 .. Len(bOrder) : bOrder[k] = i
          /\ bReply = IF Succeeded = {} THEN 0 ELSE bTasks[bOrder[FirstOf(Succeeded)]].val
          /\ bResult = IF Failed = {} THEN "" ELSE bTasks[bOrder[FirstOf(Failed)]].err
          /\ bCancelBy = IF Failed = {} THEN 0 ELSE bOrder[FirstOf(Failed)]
          /\ Failed # {} => bCtxDone

\* Broadcast has returned the error of the task that failed, with the reply of the
\* task that succeeded, the failing task having taken the lock first.
C13_Witness ==
    /\ bPc = "returned"
    /\ bResult = "server error"
    /\ bCtxDone
    /\ \E i, j \in Tasks :
          /\ bOrder = <<j, i>>
          /\ bTasks[j].err = "server error"
          /\ bTasks[i].err = ""
          /\ bReply = bTasks[i].val
          /\ bReply # 0

\* C14 as stated: an Update that has replaced the list holds the lock exclusively
\* until it returns and its exit is never blocked (the lock operation of its exit can
\* be made in the state it is reached in); and when no call is inside the discovery no
\* lock is held, so that any call can acquire the lock.
C14_UpdateReleases ==
    /\ \A p \in Callers : dPc[p] = "deferred" => CanRLock(muWriter)
    /\ (\A p \in Callers : dPc[p] \in {"idle", "rlock"}) => muWriter = 0 /\ muReaders = 0

\* C15 as stated: a dial that found a cached, available client returned that client
\* and did not close it; a dial that found a cached client that was not available
\* closed it and returned a fresh one (or the dial error); a dial that found none
\* returned a fresh client and cached it (or the dial error); and the client dial
\* returned is not one that this dial closed.
C15_DialCache ==
    lastDial.addr # "" =>
        /\ lastDial.cached # 0 /\ lastDial.wasAvailable =>
              /\ lastDial.ret = lastDial.cached
              /\ lastDial.closed = 0
        /\ lastDial.cached # 0 /\ ~lastDial.wasAvailable =>
              /\ lastDial.closed = lastDial.cached
              /\ lastDial.ret # lastDial.cached
        /\ lastDial.cached = 0 /\ lastDial.err = "" =>
              /\ lastDial.ret # 0
              /\ xClients[lastDial.addr] = lastDial.ret
        /\ lastDial.ret # 0 => lastDial.ret # lastDial.closed

\* C16 as stated: no Codec.Write of the client runs with mu held, and no delivery on
\* a Done channel is made with sending held.
C16_LockDiscipline ==
    \A l \in lockLog :
        /\ l[1] = "send.Write" => "mu" \notin l[2]
        /\ l[1] \in {"send.done", "receive.done", "terminateCalls.done"} =>
              "sending" \notin l[2]

\* C17 as stated: a call in pending is registered under its Seq and is outstanding:
\* its Call has not returned and its Done has not been signaled (by a response, a
\* failed write, terminateCalls or otherwise).
C17_PendingIffOutstanding ==
    \A s \in DOMAIN pending :
        /\ calls[pending[s]].Seq = s
        /\ callPc[pending[s]] \in {"body", "select"}
        /\ calls[pending[s]].signalled = 0

\* The step in which the write of call c's request fails: in the header (send goes
\* from the lock to its return in one step) or in the body.
WriteFails(c) ==
    \/ callPc[c] = "idle" /\ callPc'[c] = "select"
    \/ callPc[c] = "body" /\ callPc'[c] = "select" /\ connBroken

\* While send is between the header and the body of call c it holds sending, no other
\* call is there, c's Seq is no other sent call's, and c's header is the last item of
\* the request stream.
SendIsOneStep(c) ==
    callPc[c] = "body" =>
        /\ sending = c
        /\ \A c2 \in Calls \ {c} : callPc[c2] # "body"
        /\ \A c2 \in Calls \ {c} : callPc[c2] # "idle" => calls[c2].Seq # calls[c].Seq
        /\ reqWire[Len(reqWire)] = HdrItem(<<"send", c>>, calls[c].ServerMethod,
                                           calls[c].Seq, NoErr, c)

\* C18 as stated: send is one step with respect to other senders, and a failed write
\* leaves the call out of pending, with the write error as its Error and one more
\* signal on its Done.
C18_SendFailureCompletes ==
    [][\A c \in Calls :
          /\ SendIsOneStep(c)'
          /\ WriteFails(c) =>
                /\ ~InPending(c)'
                /\ calls'[c].Error = Err("write", "broken pipe")
                /\ calls'[c].signalled = calls[c].signalled + 1]_vars

\* C18 as amended: send is one step with respect to other senders; a failed write
\* leaves the call out of pending; if the call was still registered when the write
\* failed, send gives it the write error and one signal on its Done; if receive had
\* already removed it (a response for its Seq was read before the write failed), send
\* changes nothing of the call.
C18_SendFailureWhenRegistered ==
    [][\A c \in Calls :
          /\ SendIsOneStep(c)'
          /\ callPc[c] = "idle" /\ callPc'[c] = "body" =>
                /\ calls'[c].Seq = seq
                /\ seq' = seq + 1
                /\ lookupCall(pending', seq) = c
                /\ \A s \in DOMAIN pending : lookupCall(pending', s) = pending[s]
          /\ WriteFails(c) =>
                /\ ~InPending(c)'
                /\ IF callPc[c] = "idle" \/ lookupCall(pending, calls[c].Seq) = c
                   THEN /\ calls'[c].Error = Err("write", "broken pipe")
                        /\ calls'[c].signalled = calls[c].signalled + 1
                        /\ calls'[c].Done = calls[c].Done + 1
                   ELSE calls'[c] = calls[c]]_vars

\* The write of one call's body failed while the call was registered, after another
\* call was sent whole: the first is out of pending with the write error and one
\* signal, the other is still pending.
C18_Witness ==
    \E c1, c2 \in Calls :
        /\ callPc[c1] = "select"
        /\ calls[c1].Error = Err("write", "broken pipe")
        /\ calls[c1].signalled = 1
        /\ ~InPending(c1)
        /\ \E j \in 1 .. Len(reqWire) : reqWire[j].frame = <<"send", c1>>
        /\ InPending(c2)
        /\ calls[c2].Seq < calls[c1].Seq

\* C19: when the server has closed the connection, the serve loop has stopped reading
\* (it ended on a read error and reads no more), every handleRequest spawned on the
\* connection has returned, no sender holds the connection's sending lock or is about
\* to write; and from then on nothing is written to the connection.
ClosedAfterHandlers ==
    srvPc = "closed" =>
        /\ srvExit # ""
        /\ wg = 0
        /\ srvSending = 0
        /\ \A i \in HandlerIds :
              /\ handlers[i].hPc = "done"
              /\ handlers[i].gPc \notin {"send", "sendBody", "sent"}

C19_CloseAfterHandlers ==
    [][/\ ClosedAfterHandlers'
       /\ srvPc = "closed" =>
             /\ srvPc' = "closed"
             /\ respWire' = respWire
             /\ srvRead' = srvRead
             /\ Len(handlers') = Len(handlers)]_vars

\* The connection was closed after two handlers had written their responses, one of
\* them after its handle timeout, its method still running.
C19_Witness ==
    /\ srvPc = "closed"
    /\ Len(handlers) = 2
    /\ \A i \in HandlerIds : ResponsesOf(i) # {}
    /\ \E i \in HandlerIds : handlers[i].timedOut /\ handlers[i].gPc = "call"

\* The concatenation of the strings of a list.
RECURSIVE Flat(_)
Flat(list) == IF list = << >> THEN << >> ELSE Head(list) \o Flat(Tail(list))

Without(s, chars) == SelectSeq(s, LAMBDA ch : ch \notin chars)

\* Position i of header h holds the first character other than white space of its
\* comma-separated piece.
FirstOfPiece(h, i) ==
    /\ h[i] \notin {" ", ","}
    /\ \A j \in 1 .. (i - 1) : (\A k \in j .. (i - 1) : h[k] # ",") => h[j] = " "

\* list is h's non-empty trimmed entries: no entry is empty, starts or ends with
\* white space or holds a comma; each is a stretch of h; together they are h's
\* characters in h's order; there is one for each piece of h that is not blank.
TrimmedEntriesOf(list, h) ==
    /\ \A k \in 1 .. Len(list) :
          /\ list[k] # << >>
          /\ Head(list[k]) # " "
          /\ list[k][Len(list[k])] # " "
          /\ \A j \in 1 .. Len(list[k]) : list[k][j] # ","
          /\ \E i \in 1 .. Len(h), j \in 1 .. Len(h) : list[k] = SubSeq(h, i, j)
    /\ Without(Flat(list), {" "}) = Without(h, {" ", ","})
    /\ Len(list) = Cardinality({i \in 1 .. Len(h) : FirstOfPiece(h, i)})

\* C20: a Refresh made before lastUpdate + timeout does no GET and leaves the list and
\* lastUpdate as they were; made later it does one GET and, when the GET succeeds,
\* replaces the list with the non-empty trimmed entries of the X-Geerpc-Servers
\* header and sets lastUpdate to now (a failed GET leaves both as they were).
\* Update replaces the list with its argument and sets lastUpdate to now.  Get and
\* GetAll reach the embedded discovery only through a Refresh that returned no
\* error.  Nothing else changes the list or lastUpdate.
C20_Refresh ==
    [][/\ (rdLast' # rdLast /\ rdLast'.op = "Refresh") =>
             IF now < rdLastUpdate + rdTimeout
             THEN /\ ~rdLast'.got
                  /\ dServers' = dServers
                  /\ rdLastUpdate' = rdLastUpdate
             ELSE /\ rdLast'.got
                  /\ IF rdLast'.err = ""
                     THEN /\ TrimmedEntriesOf(dServers', rdLast'.input)
                          /\ rdLastUpdate' = now
                     ELSE /\ dServers' = dServers
                          /\ rdLastUpdate' = rdLastUpdate
       /\ (rdLast' # rdLast /\ rdLast'.op = "Update") =>
             /\ dServers' = rdLast'.input
             /\ rdLastUpdate' = now
       /\ (rdPc = "idle" /\ rdPc' = "inner") =>
             /\ rdLast' # rdLast
             /\ rdLast'.op = "Refresh"
             /\ rdLast'.err = ""
       /\ rdLast' = rdLast => (dServers' = dServers /\ rdLastUpdate' = rdLastUpdate)
      ]_vars

\* A Refresh that came too early after one that read the header "a,a".
C20_Witness ==
    /\ rdLast.op = "Refresh"
    /\ ~rdLast.got
    /\ rdTimeout = 2
    /\ now = rdLastUpdate + 1
    /\ dServers = << <<"a">>, <<"a">> >>

\* The errors NewClient returns with a nil client.
NewClientErrors == {Err("unknown codec ", ct) : ct \in CodecTypes} \cup {Err("write", "broken pipe")}

\* C21 as stated: NewHTTPClient does not fail on the response it reads, and when it
\* returns no client it returns a non-nil error: "unexpected HTTP response: <status>"
\* for a status other than connected, or the error of the NewClient it went on to.
C21_UnexpectedStatus ==
    dialer = "NewHTTPClient" =>
        /\ innerPc # "panic"
        /\ (innerPc \in {"send", "done"} /\ fResult.client = "nil") =>
              fResult.err \in
                  {Err("unexpected HTTP response: ", r.status) :
                        r \in {x \in HTTPResponses : x.err = NoErr /\ x.status # Connected}}
                  \cup NewClientErrors

\* C22: with HandleTimeout > 0 every handler task returns, whether or not the user
\* method does, and once the serve loop has left its loop its wg.Wait() returns;
\* with HandleTimeout = 0 a handler task has returned only when the method has
\* completed and the goroutine that called it is through sendResponse.
C22_HandlersReturn ==
    /\ [](timeout = 0 =>
            \A i \in HandlerIds :
                handlers[i].hPc = "done" => handlers[i].gPc = "done" /\ ~handlers[i].timedOut)
    /\ \A i \in 1 .. NumCalls :
          (timeout > 0 /\ i \in HandlerIds) ~> (i \in HandlerIds /\ handlers[i].hPc = "done")
    /\ (timeout > 0 /\ srvPc = "wait") ~> (srvPc = "closed")

\* The serve loop's wait is over and two handlers have returned, the method of one
\* of them still running.
C22_Witness ==
    /\ timeout > 0
    /\ srvPc = "closed"
    /\ wg = 0
    /\ Len(handlers) = 2
    /\ \E i \in HandlerIds : handlers[i].hPc = "done" /\ handlers[i].gPc = "call"

\* The place of an address in the list.
PlaceOf(addr) == CHOOSE k \in 1 .. Len(dServers) : dServers[k] = addr

\* C23: every Get(RoundRobinSelect) returns a member of the list; of two Gets that
\* returned one after the other, neither overlapping another Get, the second returned
\* the address that follows the first's in the list, cyclically; so n such Gets in a
\* row returned each of the n addresses once.
C23_RoundRobin ==
    LET n == Len(dServers)
        Alone(k) == ~rrLog[k].overlapped
    IN  /\ \A k \in 1 .. Len(rrLog) : \E j \in 1 .. n : rrLog[k].addr = dServers[j]
        /\ \A k \in 1 .. (Len(rrLog) - 1) :
              Alone(k) /\ Alone(k + 1) =>
                  PlaceOf(rrLog[k + 1].addr) = (PlaceOf(rrLog[k].addr) % n) + 1
        /\ \A k \in 1 .. (Len(rrLog) - n + 1) :
              (\A j \in k .. (k + n - 1) : Alone(j)) =>
                  {rrLog[j].addr : j \in k .. (k + n - 1)} = {dServers[j] : j \in 1 .. n}

\* Three Gets in a row on a list of three, from an initial index beyond the list:
\* the turn went past the end of the list.
C23_Witness ==
    /\ dServers = <<"a", "b", "c">>
    /\ Len(rrLog) = 3
    /\ \A k \in 1 .. 3 : ~rrLog[k].overlapped
    /\ <<rrLog[1].addr, rrLog[2].addr, rrLog[3].addr>> = <<"b", "c", "a">>

====
